---- MODULE Spec2Model ----
(***************************************************************************)
(* The goldfish/qemu pipe device of hw/misc/android_pipe.c: the channel    *)
(* records (HwPipe), the channel table and traversal list of PipeDevice,   *)
(* the command engine pipeDevice_doCommand, the MMIO register file         *)
(* pipe_dev_read / pipe_dev_write and the host callbacks                   *)
(* qemu2_android_pipe_wake / qemu2_android_pipe_close.                     *)
(***************************************************************************)
EXTENDS Integers, Sequences, FiniteSets, TLC

(***************************************************************************)
(* Bounds of the model.                                                    *)
(***************************************************************************)
\* number of HwPipe records pipe_new0 can allocate in one behaviour
MaxPipes == 2

\* the bits of one half of a 64-bit register
HalfBits == 2

(***************************************************************************)
(* Program constants.                                                      *)
(***************************************************************************)
NULL == 0

PIPE_CMD_OPEN == 1
PIPE_CMD_CLOSE == 2
PIPE_CMD_POLL == 3
PIPE_CMD_WRITE_BUFFER == 4
PIPE_CMD_WAKE_ON_WRITE == 5
PIPE_CMD_READ_BUFFER == 6
PIPE_CMD_WAKE_ON_READ == 7

PIPE_ERROR_INVAL == -1
PIPE_ERROR_AGAIN == -2
PIPE_ERROR_NOMEM == -3
PIPE_ERROR_IO == -4

PIPE_WAKE_CLOSED == 1
PIPE_WAKE_READ == 2
PIPE_WAKE_WRITE == 4

\* unsigned char holds 8 bits: (unsigned char)flags is flags modulo UCHAR_MOD
UCHAR_MOD == 256

(***************************************************************************)
(* 64-bit registers and channel ids are numbers of two halves of HalfBits  *)
(* bits each; HalfMod stands for 2^32.                                     *)
(***************************************************************************)
HalfMod == 2 ^ HalfBits

\* 0xFFFFFFFFULL and ~(0xFFFFFFFFULL)
LowMask == HalfMod - 1
HighMask == LowMask * HalfMod

\* the id with high half h and low half l
U64(h, l) == h * HalfMod + l

(***************************************************************************)
(* Inputs of the environment (the guest driver, the host services).        *)
(***************************************************************************)
\* values the guest writes to PIPE_REG_CHANNEL / PIPE_REG_CHANNEL_HIGH
LowVals == {1, 2}
HighVals == {1}
\* the channel ids the guest driver uses: it latches both halves of an id
\* before it issues a command
GuestIds == {U64(1, 1), U64(1, 2)}
\* flags the host services pass to signalWake
WakeFlagInputs == {PIPE_WAKE_READ}
\* what a service's poll / recv / send returns
HandlerRets == {PIPE_ERROR_AGAIN, 2}
\* cpu_physical_memory_map: maps all, maps less than asked, maps nothing
MapOutcomes == {"full", "short", "null"}
\* commands the guest writes to PIPE_REG_COMMAND
\* (the last is a code that pipeDevice_doCommand's switch does not know)
UnknownCommand == PIPE_CMD_WAKE_ON_READ + 1
Commands == PIPE_CMD_OPEN .. UnknownCommand
\* what a read of a freed HwPipe's wanted / channel may yield
WantedVals == 0 .. (PIPE_WAKE_CLOSED + PIPE_WAKE_READ)

Handles == 1 .. MaxPipes

\* the host threads that run the services' callbacks
HostThreads == {"h1", "h2"}

(***************************************************************************)
(* Bit operations on wake masks.                                           *)
(***************************************************************************)
RECURSIVE BitOr(_, _)
BitOr(a, b) ==
    IF a = 0 THEN b
    ELSE IF b = 0 THEN a
    ELSE (IF a % 2 = 1 \/ b % 2 = 1 THEN 1 ELSE 0) + 2 * BitOr(a \div 2, b \div 2)

RECURSIVE BitAnd(_, _)
BitAnd(a, b) ==
    IF a = 0 \/ b = 0 THEN 0
    ELSE (IF a % 2 = 1 /\ b % 2 = 1 THEN 1 ELSE 0) + 2 * BitAnd(a \div 2, b \div 2)

(***************************************************************************)
(* The halves of a 64-bit register.                                        *)
(***************************************************************************)
\* a uint64_set_low that does not clear the low half first
uint64_set_low_unmasked(addr, value) == BitOr(addr, value % HalfMod)

\* *addr = (*addr & ~(0xFFFFFFFFULL)) | value;   value is a uint32
uint64_set_low(addr, value) == BitOr(BitAnd(addr, HighMask), value % HalfMod)

\* *addr = (*addr & 0xFFFFFFFFULL) | ((uint64_t)value << 32)
uint64_set_high(addr, value) ==
    BitOr(BitAnd(addr, LowMask), (value % HalfMod) * HalfMod)

\* (uint32_t)(x >> 32)
High32(x) == (x \div HalfMod) % HalfMod

\* (uint32_t)(x & 0xFFFFFFFFUL)
Low32(x) == BitAnd(x, LowMask)

VARIABLES
    hw,                 \* the heap of HwPipe records, by handle
    pipes,              \* PipeDevice.pipes: head of the traversal list
    save_pipes,         \* PipeDevice.save_pipes
    cache_pipe,         \* PipeDevice.cache_pipe
    cache_pipe_64bit,   \* PipeDevice.cache_pipe_64bit
    pipes_by_channel,   \* PipeDevice.pipes_by_channel: channel id -> handle
    address,            \* i/o registers
    size,
    status,
    channel,
    wakes,
    params_addr,
    irq,                \* level of AndroidPipeState.irq
    aborted,            \* an assert() of the device has failed
    mmio,               \* the MMIO thread: where it is in an access
    host,               \* the host threads: where each is in a callback
    deposited,          \* per handle: the flags the host passed (host) and the
                        \* bits the guest subscribed (guest) since its last drain
    last                \* the operation that produced this state, its result
                        \* and the external calls it made

vars == <<hw, pipes, save_pipes, cache_pipe, cache_pipe_64bit, pipes_by_channel,
          address, size, status, channel, wakes, params_addr, irq, aborted,
          mmio, host, deposited, last>>

\* the device: everything but the threads' positions and the observers
dev == <<hw, pipes, save_pipes, cache_pipe, cache_pipe_64bit, pipes_by_channel,
         address, size, status, channel, wakes, params_addr, irq, aborted>>

regs == <<address, size, status, channel, wakes, params_addr>>

(***************************************************************************)
(* HwPipe records.                                                         *)
(***************************************************************************)
\* a record not allocated yet, and one that g_free has released
FreshPipe == [st |-> "fresh", channel |-> U64(0, 0), wanted |-> 0,
              closed |-> FALSE, next |-> NULL]

FreedPipe == [FreshPipe EXCEPT !.st = "freed"]

Live(h, p) == p # NULL /\ h[p].st = "live"

\* pipe->lock held: val = pipe->wanted; pipe->wanted = 0
get_and_clear_pipe_wanted(h, pipe) == [h EXCEPT ![pipe].wanted = 0]

\* pipe->lock held: pipe->wanted |= val
set_pipe_wanted_bits(h, pipe, val) == [h EXCEPT ![pipe].wanted = BitOr(@, val)]

\* the records g_malloc0 may still return in pipe_new0: the heap hands out
\* each record once
FreshHandles == {p \in Handles : hw[p].st = "fresh"}

\* pipe_new(channel, dev) on the zeroed record p, then pipe->next = dev->pipes
pipe_new(h, p, chan, nxt) ==
    [h EXCEPT ![p] = [st |-> "live", channel |-> chan, wanted |-> 0,
                      closed |-> FALSE, next |-> nxt]]

(***************************************************************************)
(* The channel table (a GHashTable keyed by the 64-bit channel).           *)
(***************************************************************************)
\* an entry of the table
Entry(key, pipe) == [key |-> key, pipe |-> pipe]

\* a lookup that ignores the key and returns whatever the table holds
lookup_any(t, key) ==
    IF t = {} THEN NULL ELSE (CHOOSE e \in t : TRUE).pipe

g_hash_table_lookup(t, key) ==
    IF \E e \in t : e.key = key THEN (CHOOSE e \in t : e.key = key).pipe ELSE NULL

g_hash_table_insert(t, key, pipe) ==
    {e \in t : e.key # key} \cup {Entry(key, pipe)}

g_hash_table_remove(t, key) == {e \in t : e.key # key}

(***************************************************************************)
(* The traversal list.                                                     *)
(***************************************************************************)
\* a scan that stops at the first record whatever its wanted mask
FindAny(h, pipe) == pipe

\* while (pipe && pipe->wanted == 0) pipe = pipe->next;
RECURSIVE FindWanted(_, _)
FindWanted(h, pipe) ==
    IF pipe = NULL THEN NULL
    ELSE IF h[pipe].wanted # 0 THEN pipe
    ELSE FindWanted(h, h[pipe].next)

\* while (*pnode && *pnode != pipe) pnode = &(*pnode)->next;  then !*pnode
RECURSIVE OnList(_, _, _)
OnList(h, from, pipe) ==
    IF from = NULL THEN FALSE
    ELSE IF from = pipe THEN TRUE
    ELSE OnList(h, h[from].next, pipe)

\* the records of the list that starts at 'from', in order
RECURSIVE ListFrom(_, _)
ListFrom(h, from) ==
    IF from = NULL THEN <<>> ELSE <<from>> \o ListFrom(h, h[from].next)

\* *pnode = pipe->next; pipe->next = NULL;   (the heap after the unlink)
Unlink(h, head, pipe) ==
    [q \in DOMAIN h |->
        IF q = pipe THEN [h[q] EXCEPT !.next = NULL]
        ELSE IF head # pipe /\ h[q].next = pipe /\ OnList(h, head, q)
             THEN [h[q] EXCEPT !.next = h[pipe].next]
        ELSE h[q]]

\* dev->pipes after the unlink
UnlinkHead(h, head, pipe) == IF head = pipe THEN h[pipe].next ELSE head

(***************************************************************************)
(* The fast-path slots.                                                    *)
(***************************************************************************)
\* the value get_and_clear_cache_pipe returns
get_and_clear_cache_pipe ==
    IF cache_pipe_64bit # NULL THEN cache_pipe_64bit ELSE cache_pipe

\* dev->cache_pipe after get_and_clear_cache_pipe
CachePipeAfterGet == IF cache_pipe_64bit # NULL THEN cache_pipe ELSE NULL

\* clear_cache_pipe_if_equal: a slot's value after it
clear_cache_pipe_if_equal(slot, pipe) == IF slot = pipe THEN NULL ELSE slot

(***************************************************************************)
(* The state after android_pipe_realize.                                   *)
(***************************************************************************)
\* closes counts the times a host close has deposited the CLOSED flag
NoDeposit == [host |-> 0, guest |-> 0, closes |-> 0]

\* len is the length of the buffer an operation handed to recv / send, map
\* what cpu_physical_memory_map gave it
NoMap == [ptr |-> FALSE, l |-> 0]

NoOp == [op |-> "realize", cmd |-> 0, h |-> NULL, path |-> "", ret |-> 0,
         calls |-> <<>>, pair |-> NULL, len |-> 0, map |-> NoMap]

MmioIdle == [pc |-> "idle", cmd |-> 0, pipe |-> NULL, tmp |-> 0]

HostIdle == [pc |-> "idle", pipe |-> NULL, flags |-> 0]

Init ==
    /\ hw = [p \in Handles |-> FreshPipe]
    /\ pipes = NULL
    /\ save_pipes = NULL
    /\ cache_pipe = NULL
    /\ cache_pipe_64bit = NULL
    /\ pipes_by_channel = {}
    /\ address = U64(0, 0)
    /\ size = 0
    /\ status = 0
    /\ channel = U64(0, 0)
    /\ wakes = 0
    /\ params_addr = U64(0, 0)
    /\ irq = 0
    /\ aborted = FALSE
    /\ mmio = MmioIdle
    /\ host = [t \in HostThreads |-> HostIdle]
    /\ deposited = [p \in Handles |-> NoDeposit]
    /\ last = NoOp

(***************************************************************************)
(* pipeDevice_doCommand.  new is the record pipe_new0 allocates, hret what  *)
(* the service's poll/recv/send returns, mapped what                       *)
(* cpu_physical_memory_map does, rewake/reflags whether android_pipe_free  *)
(* calls back qemu2_android_pipe_wake (see the note in pipe_free) and with *)
(* which flags.                                                            *)
(***************************************************************************)
\* the bit a WAKE_ON command subscribes
WakeOnBit(command) ==
    IF command = PIPE_CMD_WAKE_ON_READ THEN PIPE_WAKE_READ ELSE PIPE_WAKE_WRITE

\* the branch pipeDevice_doCommand would take without its test of pipe->closed
CommandPathUnchecked(command, mapped) ==
    LET pipe == g_hash_table_lookup(pipes_by_channel, channel) IN
    CASE command # PIPE_CMD_OPEN /\ pipe = NULL -> "no_channel"
      [] command = PIPE_CMD_OPEN -> IF pipe # NULL THEN "exists" ELSE "opened"
      [] command = PIPE_CMD_CLOSE ->
            IF ~OnList(hw, pipes, pipe) THEN "not_on_list" ELSE "closed"
      [] command = PIPE_CMD_POLL -> "polled"
      [] command \in {PIPE_CMD_READ_BUFFER, PIPE_CMD_WRITE_BUFFER} -> mapped
      [] command \in {PIPE_CMD_WAKE_ON_READ, PIPE_CMD_WAKE_ON_WRITE} ->
            IF BitAnd(hw[pipe].wanted, WakeOnBit(command)) = 0
            THEN "subscribed" ELSE "already"
      [] OTHER -> "unknown_command"

\* the branch pipeDevice_doCommand takes when dev->channel is chan
CommandPathOn(chan, command, mapped) ==
    LET pipe == g_hash_table_lookup(pipes_by_channel, chan) IN
    CASE command # PIPE_CMD_OPEN /\ pipe = NULL -> "no_channel"
      [] pipe # NULL /\ hw[pipe].closed /\ command # PIPE_CMD_CLOSE -> "host_closed"
      [] OTHER ->
            CASE command = PIPE_CMD_OPEN ->
                    IF pipe # NULL THEN "exists" ELSE "opened"
              [] command = PIPE_CMD_CLOSE ->
                    IF ~OnList(hw, pipes, pipe) THEN "not_on_list" ELSE "closed"
              [] command = PIPE_CMD_POLL -> "polled"
              [] command \in {PIPE_CMD_READ_BUFFER, PIPE_CMD_WRITE_BUFFER} -> mapped
              [] command \in {PIPE_CMD_WAKE_ON_READ, PIPE_CMD_WAKE_ON_WRITE} ->
                    IF BitAnd(hw[pipe].wanted, WakeOnBit(command)) = 0
                    THEN "subscribed" ELSE "already"
              [] OTHER -> "unknown_command"

\* the branch pipeDevice_doCommand takes
CommandPath(command, mapped) == CommandPathOn(channel, command, mapped)

\* pipe_free: android_pipe_free(pipe->pipe), which may call
\* qemu2_android_pipe_wake(pipe, reflags); then the lock is destroyed and the
\* record freed.  The heap, cache_pipe and the irq level after it.
pipe_free_hw(h, pipe, rewake, reflags) ==
    [(IF rewake THEN set_pipe_wanted_bits(h, pipe, reflags % UCHAR_MOD) ELSE h)
        EXCEPT ![pipe] = FreedPipe]

pipe_free_cache(h, slot, pipe, rewake) ==
    IF rewake /\ ~h[pipe].closed THEN pipe ELSE slot

pipe_free_irq(level, rewake) == IF rewake THEN 1 ELSE level


\* an OPEN that links the new record behind the last record of the list
doCommand_OPEN_append(new) ==
    LET lst == ListFrom(hw, pipes)
        tail == IF lst = <<>> THEN NULL ELSE lst[Len(lst)]
        made == pipe_new(hw, new, channel, NULL)
    IN
    /\ hw' = IF tail = NULL THEN made ELSE [made EXCEPT ![tail].next = new]
    /\ pipes' = IF tail = NULL THEN new ELSE pipes
    /\ save_pipes' = IF tail = NULL THEN new ELSE pipes
    /\ status' = 0
    /\ pipes_by_channel' = g_hash_table_insert(pipes_by_channel, channel, new)
    /\ UNCHANGED <<cache_pipe, cache_pipe_64bit, irq>>

\* case PIPE_CMD_OPEN, pipe == NULL
doCommand_OPEN(new) ==
    /\ hw' = pipe_new(hw, new, channel, pipes)
    /\ pipes' = new
    /\ save_pipes' = new
    /\ status' = 0
    /\ pipes_by_channel' = g_hash_table_insert(pipes_by_channel, channel, new)
    /\ UNCHANGED <<cache_pipe, cache_pipe_64bit, irq>>

\* case PIPE_CMD_CLOSE, pipe found on the list
doCommand_CLOSE(pipe, rewake, reflags) ==
    LET unlinked == Unlink(hw, pipes, pipe)
        head == UnlinkHead(hw, pipes, pipe)
    IN
    /\ pipes' = head
    /\ save_pipes' = head
    /\ pipes_by_channel' = g_hash_table_remove(pipes_by_channel, hw[pipe].channel)
    /\ cache_pipe' =
          pipe_free_cache(unlinked, clear_cache_pipe_if_equal(cache_pipe, pipe),
                          pipe, rewake)
    /\ cache_pipe_64bit' = clear_cache_pipe_if_equal(cache_pipe_64bit, pipe)
    /\ hw' = pipe_free_hw(unlinked, pipe, rewake, reflags)
    /\ irq' = pipe_free_irq(irq, rewake)
    /\ UNCHANGED status

\* case PIPE_CMD_WAKE_ON_READ / PIPE_CMD_WAKE_ON_WRITE, the bit not yet set
doCommand_WAKE_ON(command, pipe) ==
    /\ hw' = [hw EXCEPT ![pipe].wanted = BitOr(@, WakeOnBit(command))]
    /\ status' = 0
    /\ UNCHANGED <<pipes, save_pipes, pipes_by_channel, cache_pipe,
                   cache_pipe_64bit, irq>>

\* a branch that reports success whatever it was asked to report
StatusAlwaysZero(value) ==
    /\ status' = 0
    /\ UNCHANGED <<hw, pipes, save_pipes, pipes_by_channel, cache_pipe,
                   cache_pipe_64bit, irq>>

\* a branch that only sets dev->status
StatusOnly(value) ==
    /\ status' = value
    /\ UNCHANGED <<hw, pipes, save_pipes, pipes_by_channel, cache_pipe,
                   cache_pipe_64bit, irq>>

\* a switch whose default branch reports success
doCommand_default_zero(command, new, hret, mapped, rewake, reflags) ==
    LET pipe == g_hash_table_lookup(pipes_by_channel, channel)
        path == CommandPath(command, mapped)
    IN
    CASE path = "no_channel" -> StatusOnly(PIPE_ERROR_INVAL)
      [] path = "host_closed" -> StatusOnly(PIPE_ERROR_IO)
      [] path = "exists" -> StatusOnly(PIPE_ERROR_INVAL)
      [] path = "opened" -> doCommand_OPEN(new)
      [] path = "not_on_list" -> StatusOnly(PIPE_ERROR_INVAL)
      [] path = "closed" -> doCommand_CLOSE(pipe, rewake, reflags)
      [] path = "polled" -> StatusOnly(hret)
      [] path \in {"null", "short"} -> StatusOnly(PIPE_ERROR_INVAL)
      [] path = "full" -> StatusOnly(hret)
      [] path = "subscribed" -> doCommand_WAKE_ON(command, pipe)
      [] path = "already" -> StatusOnly(0)
      [] OTHER -> StatusOnly(0)

pipeDevice_doCommand(command, new, hret, mapped, rewake, reflags) ==
    LET pipe == g_hash_table_lookup(pipes_by_channel, channel)
        path == CommandPath(command, mapped)
    IN
    CASE path = "no_channel" -> StatusOnly(PIPE_ERROR_INVAL)
      [] path = "host_closed" -> StatusOnly(PIPE_ERROR_IO)
      [] path = "exists" -> StatusOnly(PIPE_ERROR_INVAL)
      [] path = "opened" -> doCommand_OPEN(new)
      [] path = "not_on_list" -> StatusOnly(PIPE_ERROR_INVAL)
      [] path = "closed" -> doCommand_CLOSE(pipe, rewake, reflags)
      [] path = "polled" -> StatusOnly(hret)
      [] path \in {"null", "short"} -> StatusOnly(PIPE_ERROR_INVAL)
      [] path = "full" -> StatusOnly(hret)
      [] path = "subscribed" -> doCommand_WAKE_ON(command, pipe)
      [] path = "already" -> StatusOnly(0)
      [] OTHER -> UNCHANGED <<hw, pipes, save_pipes, pipes_by_channel, cache_pipe,
                              cache_pipe_64bit, irq, status>>

\* the record the command is about: the one found in the table, or the new one
CommandPipe(command, new, mapped) ==
    IF CommandPath(command, mapped) = "opened" THEN new
    ELSE g_hash_table_lookup(pipes_by_channel, channel)

\* a branch that keeps the mapping when the mapped length is short
PathCallsLeaky(path, command, rewake) ==
    LET xfer == IF command = PIPE_CMD_READ_BUFFER THEN "recv" ELSE "send" IN
    CASE path = "opened" -> <<"new">>
      [] path = "closed" -> IF rewake THEN <<"free", "irq1">> ELSE <<"free">>
      [] path = "polled" -> <<"poll">>
      [] path = "null" -> <<"map">>
      [] path = "short" -> <<"map">>
      [] path = "full" -> <<"map", xfer, "unmap">>
      [] path = "subscribed" -> <<"wake_on">>
      [] OTHER -> <<>>

\* the calls pipeDevice_doCommand makes on a branch to the service, to guest
\* memory and to the irq line, in order
PathCalls(path, command, rewake) ==
    LET xfer == IF command = PIPE_CMD_READ_BUFFER THEN "recv" ELSE "send" IN
    CASE path = "opened" -> <<"new">>
      [] path = "closed" -> IF rewake THEN <<"free", "irq1">> ELSE <<"free">>
      [] path = "polled" -> <<"poll">>
      [] path = "null" -> <<"map">>
      [] path = "short" -> <<"map", "unmap">>
      [] path = "full" -> <<"map", xfer, "unmap">>
      [] path = "subscribed" -> <<"wake_on">>
      [] OTHER -> <<>>

CommandCalls(command, mapped, rewake) ==
    PathCalls(CommandPath(command, mapped), command, rewake)

(***************************************************************************)
(* pipe_dev_write.                                                         *)
(***************************************************************************)
\* case PIPE_REG_COMMAND
pipe_dev_write_COMMAND(value, new, hret, mapped, rewake, reflags) ==
    /\ ~aborted
    /\ mmio.pc = "idle"
    /\ pipeDevice_doCommand(value, new, hret, mapped, rewake, reflags)
    /\ UNCHANGED <<address, size, channel, wakes, params_addr, aborted>>

\* case PIPE_REG_CHANNEL
pipe_dev_write_CHANNEL(value) ==
    /\ ~aborted
    /\ mmio.pc = "idle"
    /\ channel' = uint64_set_low(channel, value)
    /\ UNCHANGED <<hw, pipes, save_pipes, cache_pipe, cache_pipe_64bit,
                   pipes_by_channel, address, size, status, wakes, params_addr,
                   irq, aborted>>

\* case PIPE_REG_CHANNEL_HIGH
pipe_dev_write_CHANNEL_HIGH(value) ==
    /\ ~aborted
    /\ mmio.pc = "idle"
    /\ channel' = uint64_set_high(channel, value)
    /\ UNCHANGED <<hw, pipes, save_pipes, cache_pipe, cache_pipe_64bit,
                   pipes_by_channel, address, size, status, wakes, params_addr,
                   irq, aborted>>

(***************************************************************************)
(* pipe_dev_read.  ubw / ubc are what the read of a freed record's wanted  *)
(* and channel yields when a fast-path slot dangles.                       *)
(***************************************************************************)
\* the branch a read of PIPE_REG_CHANNEL / PIPE_REG_CHANNEL_HIGH takes
ReadPath ==
    LET cached == get_and_clear_cache_pipe IN
    IF cached # NULL
    THEN IF Live(hw, cached) THEN "cache" ELSE "dangling"
    ELSE IF FindWanted(hw, pipes) = NULL THEN "none" ELSE "scan"

\* the record the read selects
ReadPipe ==
    IF get_and_clear_cache_pipe # NULL THEN get_and_clear_cache_pipe
    ELSE FindWanted(hw, pipes)

\* the channel id the read finds in the selected record
ReadId(ubc) == IF ReadPath = "dangling" THEN ubc ELSE hw[ReadPipe].channel

\* what the read of PIPE_REG_CHANNEL returns
read_CHANNEL_value(ubc) == IF ReadPath = "none" THEN 0 ELSE Low32(ReadId(ubc))

\* what the read of PIPE_REG_CHANNEL_HIGH returns when its assert holds
read_CHANNEL_HIGH_value(ubc) == IF ReadPath = "none" THEN 0 ELSE High32(ReadId(ubc))

\* the list is exhausted: dev->pipes = dev->save_pipes, irq lowered if the
\* head was not NULL
RestoreList ==
    /\ pipes' = save_pipes
    /\ irq' = IF pipes # NULL THEN 0 ELSE irq

\* case PIPE_REG_CHANNEL
pipe_dev_read_CHANNEL(ubw) ==
    LET pipe == ReadPipe IN
    /\ ~aborted
    /\ mmio.pc = "idle"
    /\ cache_pipe' = CachePipeAfterGet
    /\ cache_pipe_64bit' = NULL
    /\ CASE ReadPath = "cache" ->
              /\ wakes' = hw[pipe].wanted
              /\ hw' = get_and_clear_pipe_wanted(hw, pipe)
              /\ UNCHANGED <<pipes, irq>>
         [] ReadPath = "dangling" ->
              /\ wakes' = ubw
              /\ UNCHANGED <<hw, pipes, irq>>
         [] ReadPath = "none" ->
              /\ RestoreList
              /\ UNCHANGED <<hw, wakes>>
         [] ReadPath = "scan" ->
              /\ wakes' = hw[pipe].wanted
              /\ hw' = get_and_clear_pipe_wanted(hw, pipe)
              /\ pipes' = hw[pipe].next
              /\ irq' = IF hw[pipe].next = NULL THEN 0 ELSE irq
    /\ UNCHANGED <<save_pipes, pipes_by_channel, address, size, status, channel,
                   params_addr, aborted>>

\* case PIPE_REG_CHANNEL_HIGH
pipe_dev_read_CHANNEL_HIGH(ubc) ==
    LET pipe == ReadPipe IN
    /\ ~aborted
    /\ mmio.pc = "idle"
    /\ CASE ReadPath \in {"cache", "dangling"} ->
              /\ cache_pipe' = CachePipeAfterGet
              /\ cache_pipe_64bit' = pipe
              /\ aborted' = (High32(ReadId(ubc)) = 0)
              /\ UNCHANGED <<pipes, irq>>
         [] ReadPath = "none" ->
              /\ cache_pipe' = NULL
              /\ cache_pipe_64bit' = NULL
              /\ RestoreList
              /\ UNCHANGED aborted
         [] ReadPath = "scan" ->
              /\ cache_pipe' = NULL
              /\ cache_pipe_64bit' = NULL
              /\ pipes' = pipe
              /\ aborted' = (High32(ReadId(ubc)) = 0)
              /\ UNCHANGED irq
    /\ UNCHANGED <<hw, save_pipes, pipes_by_channel, address, size, status,
                   channel, wakes, params_addr>>

\* the calls a read of PIPE_REG_CHANNEL makes to the irq line
read_CHANNEL_calls ==
    IF \/ ReadPath = "none" /\ pipes # NULL
       \/ ReadPath = "scan" /\ hw[ReadPipe].next = NULL
    THEN <<"irq0">> ELSE <<>>

\* the calls a read of PIPE_REG_CHANNEL_HIGH makes to the irq line
read_CHANNEL_HIGH_calls ==
    IF ReadPath = "none" /\ pipes # NULL THEN <<"irq0">> ELSE <<>>

(***************************************************************************)
(* The host callbacks, each run to completion.                             *)
(***************************************************************************)
\* qemu2_android_pipe_wake's effect on the heap and on cache_pipe
wake_hw(h, pipe, flags) == set_pipe_wanted_bits(h, pipe, flags % UCHAR_MOD)

\* set_cache_pipe(dev, pipe) without the test of pipe->closed
wake_cache_always(h, slot, pipe) == pipe

\* if (!pipe->closed) set_cache_pipe(dev, pipe);
wake_cache(h, slot, pipe) == IF ~h[pipe].closed THEN pipe ELSE slot

qemu2_android_pipe_wake(pipe, flags) ==
    /\ ~aborted
    /\ Live(hw, pipe)
    /\ hw' = wake_hw(hw, pipe, flags)
    /\ cache_pipe' = wake_cache(hw, cache_pipe, pipe)
    /\ irq' = 1
    /\ UNCHANGED <<pipes, save_pipes, cache_pipe_64bit, pipes_by_channel, regs,
                   aborted>>

qemu2_android_pipe_close(pipe) ==
    /\ ~aborted
    /\ Live(hw, pipe)
    /\ IF ~hw[pipe].closed
       THEN LET marked == [hw EXCEPT ![pipe].closed = TRUE] IN
            /\ hw' = wake_hw(marked, pipe, PIPE_WAKE_CLOSED)
            /\ cache_pipe' = wake_cache(marked, cache_pipe, pipe)
            /\ irq' = 1
       ELSE UNCHANGED <<hw, cache_pipe, irq>>
    /\ UNCHANGED <<pipes, save_pipes, cache_pipe_64bit, pipes_by_channel, regs,
                   aborted>>

(***************************************************************************)
(* The observers: what the operation was and did (last), and what has been *)
(* deposited on each record since its last drain (deposited).              *)
(***************************************************************************)
\* the channel of an open CHANNEL_HIGH / CHANNEL pair: the live record a read
\* of CHANNEL_HIGH has selected and returned the nonzero high half of, while
\* nothing but host wakes of other records has happened since
PairAfter(name, pipe, path, ret) ==
    IF name = "read_CHANNEL_HIGH" /\ path \in {"cache", "scan"} /\ ret # 0
    THEN pipe
    ELSE IF name = "wake" /\ pipe # last.pair THEN last.pair
    ELSE NULL

Op(name, command, pipe, path, ret, calls) ==
    [op |-> name, cmd |-> command, h |-> pipe, path |-> path, ret |-> ret,
     calls |-> calls, pair |-> PairAfter(name, pipe, path, ret), len |-> 0,
     map |-> NoMap]

last_COMMAND(value, new, mapped, rewake) ==
    Op("command", value, CommandPipe(value, new, mapped),
       CommandPath(value, mapped), 0, CommandCalls(value, mapped, rewake))

last_read_CHANNEL(ubc) ==
    Op("read_CHANNEL", 0, ReadPipe, ReadPath, read_CHANNEL_value(ubc),
       read_CHANNEL_calls)

last_read_CHANNEL_HIGH(ubc) ==
    Op("read_CHANNEL_HIGH", 0, ReadPipe, ReadPath, read_CHANNEL_HIGH_value(ubc),
       read_CHANNEL_HIGH_calls)

last_wake(pipe, flags) == Op("wake", flags, pipe, "", 0, <<"irq1">>)

last_close(pipe) ==
    IF ~hw[pipe].closed THEN Op("close", 0, pipe, "first", 0, <<"irq1">>)
    ELSE Op("close", 0, pipe, "again", 0, <<>>)

last_write(name, value) == Op(name, 0, NULL, "", value, <<>>)

(***************************************************************************)
(* The inputs each operation reads.                                        *)
(***************************************************************************)
\* the handler's return value where a handler method is called, the
\* mapping's outcome for the buffer commands, the re-entrant wake for CLOSE
RetsOf(c) == IF c \in {PIPE_CMD_POLL, PIPE_CMD_READ_BUFFER, PIPE_CMD_WRITE_BUFFER}
             THEN HandlerRets ELSE {0}
MapsOf(c) == IF c \in {PIPE_CMD_READ_BUFFER, PIPE_CMD_WRITE_BUFFER}
             THEN MapOutcomes ELSE {"full"}
RewakesOf(c) == IF c = PIPE_CMD_CLOSE THEN BOOLEAN ELSE {FALSE}
\* the records an OPEN of a new id may get; the command is not issued when
\* the heap has none left
NewOf(c) == IF c = PIPE_CMD_OPEN
               /\ g_hash_table_lookup(pipes_by_channel, channel) = NULL
            THEN {p \in FreshHandles : \A q \in FreshHandles : p <= q}
            ELSE {NULL}

\* what a read through a dangling slot may find in the freed record
StaleWanted == IF ReadPath = "dangling" THEN WantedVals ELSE {0}
StaleChannel == IF ReadPath = "dangling"
                THEN {U64(h, l) : h \in HighVals, l \in LowVals}
                ELSE {U64(0, 0)}

(***************************************************************************)
(* The device with MMIO accesses and host callbacks serialised: each runs  *)
(* to completion before the next starts.  The guest uses the commands that *)
(* open, close and subscribe; last observes every operation.               *)
(***************************************************************************)
SchedCommands == {PIPE_CMD_OPEN, PIPE_CMD_CLOSE, PIPE_CMD_WAKE_ON_READ}

Observed(o) == last' = o /\ UNCHANGED <<mmio, host, deposited>>

Next ==
    \/ \E v \in LowVals :
          pipe_dev_write_CHANNEL(v) /\ Observed(last_write("write_CHANNEL", v))
    \/ \E v \in HighVals :
          pipe_dev_write_CHANNEL_HIGH(v)
              /\ Observed(last_write("write_CHANNEL_HIGH", v))
    \/ \E c \in SchedCommands : \E n \in NewOf(c), r \in RetsOf(c),
          m \in MapsOf(c), w \in RewakesOf(c), f \in WakeFlagInputs :
            /\ channel \in GuestIds
            /\ pipe_dev_write_COMMAND(c, n, r, m, w, f)
            /\ Observed(last_COMMAND(c, n, m, w))
    \/ \E w \in StaleWanted, id \in StaleChannel :
          pipe_dev_read_CHANNEL(w) /\ Observed(last_read_CHANNEL(id))
    \/ \E id \in StaleChannel :
          pipe_dev_read_CHANNEL_HIGH(id) /\ Observed(last_read_CHANNEL_HIGH(id))
    \/ \E p \in Handles, f \in WakeFlagInputs :
          qemu2_android_pipe_wake(p, f) /\ Observed(last_wake(p, f))
    \/ \E p \in Handles :
          qemu2_android_pipe_close(p) /\ Observed(last_close(p))

Spec == Init /\ [][Next]_vars

(***************************************************************************)
(* The command engine alone: the guest latches any id and issues any       *)
(* command, the host wakes and closes channels; the guest reads nothing    *)
(* back, so the traversal head stays at the saved head.  The ids the guest *)
(* opens are those of GuestIds; it issues the other commands on any id.    *)
(***************************************************************************)
NextCmd ==
    \/ \E v \in LowVals :
          pipe_dev_write_CHANNEL(v) /\ Observed(last_write("write_CHANNEL", v))
    \/ \E v \in HighVals :
          pipe_dev_write_CHANNEL_HIGH(v)
              /\ Observed(last_write("write_CHANNEL_HIGH", v))
    \/ \E c \in Commands : \E n \in NewOf(c), r \in RetsOf(c),
          m \in MapsOf(c), w \in RewakesOf(c), f \in WakeFlagInputs :
            /\ c = PIPE_CMD_OPEN => channel \in GuestIds
            /\ pipe_dev_write_COMMAND(c, n, r, m, w, f)
            /\ Observed(last_COMMAND(c, n, m, w))
    \/ \E p \in Handles, f \in WakeFlagInputs :
          qemu2_android_pipe_wake(p, f) /\ Observed(last_wake(p, f))
    \/ \E p \in Handles :
          qemu2_android_pipe_close(p) /\ Observed(last_close(p))

SpecCmd == Init /\ [][NextCmd]_vars

(***************************************************************************)
(* The device with the host callbacks running on a host thread while the   *)
(* MMIO thread serves the guest.  What a lock covers is one step; what the *)
(* code does outside any lock is a step of its own: the unlocked           *)
(* read-modify-write of pipe->wanted in WAKE_ON_READ / WAKE_ON_WRITE, the  *)
(* write of pipe->closed, the read of pipe->closed before set_cache_pipe.  *)
(* The guest uses the low register only and one channel id, which it may   *)
(* close and open again; deposited records what the host and the guest     *)
(* have put into each record's wanted since its last drain.                *)
(***************************************************************************)
WakeOnCommands == {PIPE_CMD_WAKE_ON_READ, PIPE_CMD_WAKE_ON_WRITE}

Deposit(pipe, who, bits) == [deposited EXCEPT ![pipe][who] = BitOr(@, bits)]

Drained(pipe) == [deposited EXCEPT ![pipe].host = 0, ![pipe].guest = 0]

\* the record is freed
Forgotten(pipe) == [deposited EXCEPT ![pipe] = NoDeposit]

\* the host thread that runs the callbacks while the guest issues WAKE_ON
RaceThreads == {"h1"}

\* an operation that last does not describe further
Step == Op("step", 0, NULL, "", 0, <<>>)

\* the guest works with one channel id at a time
RaceVals == {1}

\* PIPE_CMD_WAKE_ON_READ / PIPE_CMD_WAKE_ON_WRITE up to the test
\* (pipe->wanted & bit) == 0: the command ends here unless the bit is clear
doCommand_WAKE_ON_test(command) ==
    LET pipe == g_hash_table_lookup(pipes_by_channel, channel) IN
    /\ ~aborted
    /\ mmio.pc = "idle"
    /\ IF CommandPath(command, "full") = "subscribed"
       THEN /\ mmio' = [pc |-> "rmw", cmd |-> command, pipe |-> pipe,
                        tmp |-> hw[pipe].wanted]
            /\ UNCHANGED dev
       ELSE /\ pipeDevice_doCommand(command, NULL, 0, "full", FALSE, 0)
            /\ UNCHANGED <<address, size, channel, wakes, params_addr, aborted,
                           mmio>>

\* pipe->wanted |= bit; android_pipe_wake_on(...); dev->status = 0.
\* old is the value the store is computed from: the one the test loaded, or
\* the one a second load finds
doCommand_WAKE_ON_store(old) ==
    /\ ~aborted
    /\ mmio.pc = "rmw"
    /\ hw' = [hw EXCEPT ![mmio.pipe].wanted = BitOr(old, WakeOnBit(mmio.cmd))]
    /\ status' = 0
    /\ mmio' = MmioIdle
    /\ UNCHANGED <<pipes, save_pipes, cache_pipe, cache_pipe_64bit,
                   pipes_by_channel, address, size, channel, wakes, params_addr,
                   irq, aborted>>

StaleLoads == IF mmio.pc = "rmw" THEN {mmio.tmp, hw[mmio.pipe].wanted} ELSE {}

\* a host thread's access to a record the guest has freed meanwhile may end
\* the process
Crashes(pipe) == IF Live(hw, pipe) THEN {FALSE} ELSE BOOLEAN

\* set_pipe_wanted_bits(pipe, (unsigned char)flags) of qemu2_android_pipe_wake
wake_set_bits(t, pipe, flags, crash) ==
    /\ ~aborted
    /\ hw' = IF Live(hw, pipe) THEN wake_hw(hw, pipe, flags) ELSE hw
    /\ aborted' = crash
    /\ host' = [host EXCEPT ![t] = [pc |-> "set_cache", pipe |-> pipe,
                                    flags |-> flags]]
    /\ UNCHANGED <<pipes, save_pipes, cache_pipe, cache_pipe_64bit,
                   pipes_by_channel, regs, irq, mmio>>

\* qemu2_android_pipe_wake is entered
wake_enter(t, pipe, flags) ==
    /\ host[t].pc = "idle"
    /\ Live(hw, pipe)
    /\ wake_set_bits(t, pipe, flags, FALSE)

\* qemu2_android_pipe_close up to the call of qemu2_android_pipe_wake
close_enter(t, pipe) ==
    /\ ~aborted
    /\ host[t].pc = "idle"
    /\ Live(hw, pipe)
    /\ IF ~hw[pipe].closed
       THEN /\ hw' = [hw EXCEPT ![pipe].closed = TRUE]
            /\ host' = [host EXCEPT ![t] = [pc |-> "set_bits", pipe |-> pipe,
                                            flags |-> PIPE_WAKE_CLOSED]]
       ELSE UNCHANGED <<hw, host>>
    /\ UNCHANGED <<pipes, save_pipes, cache_pipe, cache_pipe_64bit,
                   pipes_by_channel, regs, irq, aborted, mmio>>

\* the wake that qemu2_android_pipe_close calls
close_set_bits(t, crash) ==
    /\ host[t].pc = "set_bits"
    /\ wake_set_bits(t, host[t].pipe, host[t].flags, crash)

\* if (!pipe->closed) set_cache_pipe(dev, pipe); isclosed is what the read of
\* a freed record's closed yields
wake_set_cache(t, isclosed) ==
    LET pipe == host[t].pipe
        closed == IF Live(hw, pipe) THEN hw[pipe].closed ELSE isclosed
    IN
    /\ ~aborted
    /\ host[t].pc = "set_cache"
    /\ cache_pipe' = IF ~closed THEN pipe ELSE cache_pipe
    /\ host' = [host EXCEPT ![t].pc = "raise"]
    /\ UNCHANGED <<hw, pipes, save_pipes, cache_pipe_64bit, pipes_by_channel,
                   regs, irq, aborted, mmio>>

StaleClosed(t) ==
    IF host[t].pc = "set_cache" /\ ~Live(hw, host[t].pipe) THEN BOOLEAN
    ELSE {FALSE}

\* qemu_set_irq(dev->ps->irq, 1)
wake_raise_irq(t) ==
    /\ ~aborted
    /\ host[t].pc = "raise"
    /\ irq' = 1
    /\ host' = [host EXCEPT ![t] = HostIdle]
    /\ UNCHANGED <<hw, pipes, save_pipes, cache_pipe, cache_pipe_64bit,
                   pipes_by_channel, regs, aborted, mmio>>

\* deposited after a step of set_pipe_wanted_bits by the host
DepositedByHost(pipe, flags) ==
    IF Live(hw, pipe) THEN Deposit(pipe, "host", flags % UCHAR_MOD)
    ELSE deposited

\* deposited after the set_pipe_wanted_bits of the wake that
\* qemu2_android_pipe_close calls
DepositedByClose(pipe) ==
    IF Live(hw, pipe)
    THEN [Deposit(pipe, "host", PIPE_WAKE_CLOSED) EXCEPT ![pipe].closes = @ + 1]
    ELSE deposited

\* deposited after a command: CLOSE frees the record
DepositedAfterCommand(command) ==
    IF CommandPath(command, "full") = "closed"
    THEN Forgotten(g_hash_table_lookup(pipes_by_channel, channel))
    ELSE deposited

\* deposited after a read of PIPE_REG_CHANNEL
DepositedAfterRead ==
    IF ReadPath \in {"cache", "scan"} THEN Drained(ReadPipe) ELSE deposited

NextRace ==
    \/ \E v \in RaceVals :
          /\ pipe_dev_write_CHANNEL(v)
          /\ last' = Step
          /\ UNCHANGED <<mmio, host, deposited>>
    \/ \E c \in {PIPE_CMD_OPEN, PIPE_CMD_CLOSE} : \E n \in NewOf(c),
          w \in RewakesOf(c), f \in WakeFlagInputs :
            /\ Low32(channel) \in RaceVals
            /\ pipe_dev_write_COMMAND(c, n, 0, "full", w, f)
            /\ deposited' = DepositedAfterCommand(c)
            /\ last' = Step
            /\ UNCHANGED <<mmio, host>>
    \/ \E c \in WakeOnCommands :
          /\ doCommand_WAKE_ON_test(c)
          /\ last' = Step
          /\ UNCHANGED <<host, deposited>>
    \/ \E old \in StaleLoads :
          /\ doCommand_WAKE_ON_store(old)
          /\ deposited' = Deposit(mmio.pipe, "guest", WakeOnBit(mmio.cmd))
          /\ last' = Step
          /\ UNCHANGED host
    \/ \E w \in StaleWanted, id \in StaleChannel :
          /\ pipe_dev_read_CHANNEL(w)
          /\ deposited' = DepositedAfterRead
          /\ last' = last_read_CHANNEL(id)
          /\ UNCHANGED <<mmio, host>>
    \/ \E t \in RaceThreads, p \in Handles, f \in WakeFlagInputs :
          /\ wake_enter(t, p, f)
          /\ deposited' = DepositedByHost(p, f)
          /\ last' = Step
    \/ \E t \in RaceThreads, p \in Handles :
          /\ close_enter(t, p)
          /\ last' = Step
          /\ UNCHANGED deposited
    \/ \E t \in RaceThreads : \E crash \in Crashes(host[t].pipe) :
          /\ close_set_bits(t, crash)
          /\ deposited' = DepositedByClose(host[t].pipe)
          /\ last' = Step
    \/ \E t \in RaceThreads : \E b \in StaleClosed(t) :
          /\ wake_set_cache(t, b)
          /\ last' = Step
          /\ UNCHANGED deposited
    \/ \E t \in RaceThreads :
          /\ wake_raise_irq(t)
          /\ last' = Step
          /\ UNCHANGED deposited

SpecRace == Init /\ [][NextRace]_vars

(***************************************************************************)
(* The host's close callback called from two host threads, each access to  *)
(* pipe->closed a step of its own (the callback takes no lock around its   *)
(* test and its write), while the guest opens channels and drains them by  *)
(* reads of the low register.                                              *)
(***************************************************************************)
\* if (!pipe->closed): the callback returns when the flag is set
close_test(t, pipe) ==
    /\ ~aborted
    /\ host[t].pc = "idle"
    /\ Live(hw, pipe)
    /\ host' = IF hw[pipe].closed THEN host
               ELSE [host EXCEPT ![t] = [pc |-> "mark", pipe |-> pipe,
                                         flags |-> PIPE_WAKE_CLOSED]]
    /\ UNCHANGED <<dev, mmio>>

\* pipe->closed = 1
close_mark(t) ==
    /\ ~aborted
    /\ host[t].pc = "mark"
    /\ hw' = [hw EXCEPT ![host[t].pipe].closed = TRUE]
    /\ host' = [host EXCEPT ![t].pc = "set_bits"]
    /\ UNCHANGED <<pipes, save_pipes, cache_pipe, cache_pipe_64bit,
                   pipes_by_channel, regs, irq, aborted, mmio>>

NextClose ==
    \/ \E v \in LowVals :
          /\ pipe_dev_write_CHANNEL(v)
          /\ last' = Step
          /\ UNCHANGED <<mmio, host, deposited>>
    \/ \E n \in NewOf(PIPE_CMD_OPEN) :
          /\ Low32(channel) \in LowVals
          /\ pipe_dev_write_COMMAND(PIPE_CMD_OPEN, n, 0, "full", FALSE, 0)
          /\ last' = Step
          /\ UNCHANGED <<mmio, host, deposited>>
    \/ \E w \in StaleWanted, id \in StaleChannel :
          /\ pipe_dev_read_CHANNEL(w)
          /\ deposited' = DepositedAfterRead
          /\ last' = last_read_CHANNEL(id)
          /\ UNCHANGED <<mmio, host>>
    \/ \E t \in HostThreads, p \in Handles :
          /\ close_test(t, p)
          /\ last' = Step
          /\ UNCHANGED deposited
    \/ \E t \in HostThreads :
          /\ close_mark(t)
          /\ last' = Step
          /\ UNCHANGED deposited
    \/ \E t \in HostThreads :
          /\ close_set_bits(t, FALSE)
          /\ deposited' = DepositedByClose(host[t].pipe)
          /\ last' = Step
    \/ \E t \in HostThreads :
          /\ wake_set_cache(t, FALSE)
          /\ last' = Step
          /\ UNCHANGED deposited
    \/ \E t \in HostThreads :
          /\ wake_raise_irq(t)
          /\ last' = Step
          /\ UNCHANGED deposited

SpecClose == Init /\ [][NextClose]_vars

(***************************************************************************)
(* Buffer transfers: the registers that describe the guest buffer, the     *)
(* mapping of guest memory, and the packed parameters of                   *)
(* PIPE_REG_ACCESS_PARAMS.  The guest uses ids with a zero high half and   *)
(* reads nothing back.                                                     *)
(***************************************************************************)
\* values the guest writes to PIPE_REG_SIZE, PIPE_REG_ADDRESS and
\* PIPE_REG_PARAMS_ADDR_LOW
SizeVals == {0, 1}
AddressVals == {1}
ParamsAddrVals == {0, 1}

\* cpu_physical_memory_map(phys, &l, is_write): no mapping, or a mapping of
\* l <= len bytes
MapResults(len) ==
    {[ptr |-> FALSE, l |-> 0]} \cup {[ptr |-> TRUE, l |-> n] : n \in 0 .. len}

\* a map_guest_buffer that takes whatever length was mapped
map_guest_buffer_any_length(res, sz) ==
    IF ~res.ptr THEN "null" ELSE "full"

\* map_guest_buffer: "short" is the branch that unmaps and returns NULL
map_guest_buffer(res, sz) ==
    IF ~res.ptr THEN "null"
    ELSE IF res.l # sz THEN "short"
    ELSE "full"

\* what cpu_physical_memory_map may do for a command
MapResultsOf(c, len) ==
    IF c \in {PIPE_CMD_READ_BUFFER, PIPE_CMD_WRITE_BUFFER}
    THEN MapResults(len) ELSE {NoMap}

\* case PIPE_REG_SIZE
pipe_dev_write_SIZE(value) ==
    /\ ~aborted
    /\ mmio.pc = "idle"
    /\ size' = value
    /\ UNCHANGED <<hw, pipes, save_pipes, cache_pipe, cache_pipe_64bit,
                   pipes_by_channel, address, status, channel, wakes,
                   params_addr, irq, aborted>>

\* case PIPE_REG_ADDRESS
pipe_dev_write_ADDRESS(value) ==
    /\ ~aborted
    /\ mmio.pc = "idle"
    /\ address' = uint64_set_low(address, value)
    /\ UNCHANGED <<hw, pipes, save_pipes, cache_pipe, cache_pipe_64bit,
                   pipes_by_channel, size, status, channel, wakes,
                   params_addr, irq, aborted>>

\* case PIPE_REG_PARAMS_ADDR_LOW
pipe_dev_write_PARAMS_ADDR_LOW(value) ==
    /\ ~aborted
    /\ mmio.pc = "idle"
    /\ params_addr' = uint64_set_low(params_addr, value)
    /\ UNCHANGED <<hw, pipes, save_pipes, cache_pipe, cache_pipe_64bit,
                   pipes_by_channel, address, size, status, channel, wakes,
                   irq, aborted>>

\* union access_params: guest memory at params_addr as 32-bit words, read
\* in the 32-bit and in the 64-bit layout
aps32(mem) ==
    [channel |-> U64(0, mem[1]), size |-> mem[2], address |-> U64(0, mem[3]),
     cmd |-> mem[4], flags |-> mem[6]]

aps64(mem) ==
    [channel |-> U64(mem[2], mem[1]), size |-> mem[3],
     address |-> U64(mem[5], mem[4]), cmd |-> mem[6], flags |-> mem[8]]

\* the structs the guest driver stores: a 32-bit one leaves flags 0, a
\* 64-bit one has its cmd where the 32-bit flags are
Pack32(chan, sz, addr, cmd) == <<chan, sz, addr, cmd, 0, 0, 0, 0>>
Pack64(chan, sz, addr, cmd) == <<chan, 0, sz, addr, 0, cmd, 0, 0>>

ParamCommands == {0, PIPE_CMD_CLOSE, PIPE_CMD_WRITE_BUFFER,
                  PIPE_CMD_READ_BUFFER}

GuestStructs ==
    {Pack32(c, s, a, k) : c \in LowVals, s \in SizeVals, a \in AddressVals,
                          k \in ParamCommands}
    \cup {Pack64(c, s, a, k) : c \in LowVals, s \in SizeVals, a \in AddressVals,
                               k \in ParamCommands}

\* if (aps.aps32.flags == 0) is_64bit = false
is_64bit(mem) == aps32(mem).flags # 0

\* the fields the device takes from the struct
ParamsOf(mem) == IF is_64bit(mem) THEN aps64(mem) ELSE aps32(mem)

\* a device that hands every cmd of the struct to pipeDevice_doCommand
ParamsPathUnfiltered(mem, mapped) ==
    IF params_addr = U64(0, 0) THEN "no_params"
    ELSE CommandPathOn(ParamsOf(mem).channel, ParamsOf(mem).cmd, mapped)

\* the branch case PIPE_REG_ACCESS_PARAMS takes
ParamsPath(mem, mapped) ==
    LET aps == ParamsOf(mem) IN
    IF params_addr = U64(0, 0) THEN "no_params"
    ELSE IF aps.cmd \notin {PIPE_CMD_READ_BUFFER, PIPE_CMD_WRITE_BUFFER}
    THEN "ignored"
    ELSE CommandPathOn(aps.channel, aps.cmd, mapped)

\* dev->status after pipeDevice_doCommand has taken the branch path for a
\* cmd the packed path lets through
ParamsStatus(path, hret) ==
    CASE path = "no_channel" -> PIPE_ERROR_INVAL
      [] path = "host_closed" -> PIPE_ERROR_IO
      [] path \in {"null", "short"} -> PIPE_ERROR_INVAL
      [] path = "full" -> hret
      [] OTHER -> status

\* case PIPE_REG_ACCESS_PARAMS
pipe_dev_write_ACCESS_PARAMS(mem, hret, res) ==
    LET aps == ParamsOf(mem)
        path == ParamsPath(mem, map_guest_buffer(res, aps.size))
    IN
    /\ ~aborted
    /\ mmio.pc = "idle"
    /\ IF path = "no_params"
       THEN UNCHANGED <<channel, size, address, status>>
       ELSE /\ channel' = aps.channel
            /\ size' = aps.size
            /\ address' = aps.address
            /\ status' = IF path = "ignored" THEN status
                         ELSE ParamsStatus(path, hret)
    /\ UNCHANGED <<hw, pipes, save_pipes, cache_pipe, cache_pipe_64bit,
                   pipes_by_channel, wakes, params_addr, irq, aborted>>

\* the reads and writes of guest memory and the calls of the command, in order
ACCESS_PARAMS_calls(mem, res) ==
    LET aps == ParamsOf(mem)
        path == ParamsPath(mem, map_guest_buffer(res, aps.size))
        reads == IF is_64bit(mem) THEN <<"read32", "read64">> ELSE <<"read32">>
    IN
    IF path = "no_params" THEN <<>>
    ELSE IF path = "ignored" THEN reads
    ELSE reads \o PathCalls(path, aps.cmd, FALSE)
           \o (IF is_64bit(mem) THEN <<"write64">> ELSE <<"write32">>)

\* ret is what the handler's recv / send returns when it is called
last_buffer_COMMAND(value, new, hret, res, rewake) ==
    LET path == CommandPath(value, map_guest_buffer(res, size)) IN
    [last_COMMAND(value, new, map_guest_buffer(res, size), rewake) EXCEPT
        !.ret = hret,
        !.len = IF path = "full" THEN size ELSE 0,
        !.map = IF path \in {"null", "short", "full"} THEN res ELSE NoMap]

last_ACCESS_PARAMS(mem, hret, res) ==
    LET aps == ParamsOf(mem)
        path == ParamsPath(mem, map_guest_buffer(res, aps.size))
    IN
    [Op("access_params",
        IF path = "no_params" THEN 0 ELSE aps.cmd,
        IF path \in {"no_params", "ignored"} THEN NULL
        ELSE g_hash_table_lookup(pipes_by_channel, aps.channel),
        path, hret, ACCESS_PARAMS_calls(mem, res))
     EXCEPT !.len = IF path = "full" THEN aps.size ELSE 0,
            !.map = IF path \in {"null", "short", "full"} THEN res ELSE NoMap]

BufferCommands == {PIPE_CMD_OPEN, PIPE_CMD_CLOSE, PIPE_CMD_WRITE_BUFFER,
                   PIPE_CMD_READ_BUFFER}

NextBuf ==
    \/ \E v \in LowVals :
          pipe_dev_write_CHANNEL(v) /\ Observed(Step)
    \/ \E v \in SizeVals :
          pipe_dev_write_SIZE(v) /\ Observed(Step)
    \/ \E v \in AddressVals :
          pipe_dev_write_ADDRESS(v) /\ Observed(Step)
    \/ \E v \in ParamsAddrVals :
          pipe_dev_write_PARAMS_ADDR_LOW(v) /\ Observed(Step)
    \/ \E c \in BufferCommands : \E n \in NewOf(c), r \in RetsOf(c),
          m \in MapResultsOf(c, size) :
            /\ c = PIPE_CMD_OPEN => Low32(channel) \in LowVals
            /\ pipe_dev_write_COMMAND(c, n, r, map_guest_buffer(m, size),
                                      FALSE, 0)
            /\ Observed(last_buffer_COMMAND(c, n, r, m, FALSE))
    \/ \E mem \in GuestStructs : \E r \in RetsOf(ParamsOf(mem).cmd),
          m \in MapResultsOf(ParamsOf(mem).cmd, ParamsOf(mem).size) :
            /\ pipe_dev_write_ACCESS_PARAMS(mem, r, m)
            /\ Observed(last_ACCESS_PARAMS(mem, r, m))
    \/ \E p \in Handles :
          qemu2_android_pipe_close(p) /\ Observed(Step)

SpecBuf == Init /\ [][NextBuf]_vars

(***************************************************************************)
(* The wake scheduler with a guest that serves the interrupt: while the    *)
(* irq is raised, or its last read of PIPE_REG_CHANNEL returned a channel, *)
(* it reads PIPE_REG_CHANNEL again.  The guest opens channels while the    *)
(* traversal head is at the saved head and closes none; the host wakes and *)
(* closes channels at any time.  last keeps the guest's last read;         *)
(* deposited[p].host the flags of p that no read has delivered yet.        *)
(***************************************************************************)
\* the guest is in its interrupt handler, or is about to enter it
GuestReading == irq = 1 \/ (last.op = "read_CHANNEL" /\ last.ret # 0)

\* deposited after a read of PIPE_REG_CHANNEL that returns a channel with
\* all its undelivered flags in the wakes register
DepositedAfterDelivery ==
    IF /\ ReadPath \in {"cache", "scan"}
       /\ BitAnd(wakes', deposited[ReadPipe].host) = deposited[ReadPipe].host
    THEN Drained(ReadPipe)
    ELSE deposited

guest_open ==
    \E n \in NewOf(PIPE_CMD_OPEN) :
        /\ Low32(channel) \in LowVals
        /\ pipes = save_pipes
        /\ pipe_dev_write_COMMAND(PIPE_CMD_OPEN, n, 0, "full", FALSE, 0)
        /\ UNCHANGED <<mmio, host, deposited, last>>

guest_read_CHANNEL ==
    \E w \in StaleWanted, id \in StaleChannel :
        /\ GuestReading
        /\ pipe_dev_read_CHANNEL(w)
        /\ deposited' = DepositedAfterDelivery
        /\ last' = last_read_CHANNEL(id)
        /\ UNCHANGED <<mmio, host>>

host_wake ==
    \E p \in Handles, f \in WakeFlagInputs :
        /\ qemu2_android_pipe_wake(p, f)
        /\ deposited' = DepositedByHost(p, f)
        /\ UNCHANGED <<mmio, host, last>>

host_close ==
    \E p \in Handles :
        /\ qemu2_android_pipe_close(p)
        /\ deposited' = IF hw[p].closed THEN deposited ELSE DepositedByClose(p)
        /\ UNCHANGED <<mmio, host, last>>

NextLive ==
    \/ \E v \in LowVals :
          pipe_dev_write_CHANNEL(v) /\ UNCHANGED <<mmio, host, deposited, last>>
    \/ guest_open
    \/ guest_read_CHANNEL
    \/ host_wake
    \/ host_close

\* the guest's handler runs whenever it has a read to do
SpecLive == Init /\ [][NextLive]_vars /\ WF_vars(guest_read_CHANNEL)

(***************************************************************************)
(* The device with a guest that latches ids whose high half may be zero    *)
(* (a 32-bit guest's ids are) and reads both halves of the signalled       *)
(* channel; the host wakes channels.                                       *)
(***************************************************************************)
\* values the guest writes to PIPE_REG_CHANNEL_HIGH
HighHalves == {0, 1}

NextHigh ==
    \/ \E v \in LowVals :
          pipe_dev_write_CHANNEL(v) /\ Observed(last_write("write_CHANNEL", v))
    \/ \E v \in HighHalves :
          pipe_dev_write_CHANNEL_HIGH(v)
              /\ Observed(last_write("write_CHANNEL_HIGH", v))
    \/ \E n \in NewOf(PIPE_CMD_OPEN) :
          /\ Low32(channel) \in LowVals
          /\ pipe_dev_write_COMMAND(PIPE_CMD_OPEN, n, 0, "full", FALSE, 0)
          /\ Observed(last_COMMAND(PIPE_CMD_OPEN, n, "full", FALSE))
    \/ \E w \in StaleWanted, id \in StaleChannel :
          pipe_dev_read_CHANNEL(w) /\ Observed(last_read_CHANNEL(id))
    \/ \E id \in StaleChannel :
          pipe_dev_read_CHANNEL_HIGH(id) /\ Observed(last_read_CHANNEL_HIGH(id))
    \/ \E p \in Handles, f \in WakeFlagInputs :
          qemu2_android_pipe_wake(p, f) /\ Observed(last_wake(p, f))

SpecHigh == Init /\ [][NextHigh]_vars

(***************************************************************************)
(* The registers that are written and read in halves.                      *)
(***************************************************************************)
\* the values the guest writes to a half: no bit, one bit, every bit
HalfVals == {0, 1, LowMask}

\* case PIPE_REG_ADDRESS_HIGH
pipe_dev_write_ADDRESS_HIGH(value) ==
    /\ ~aborted
    /\ mmio.pc = "idle"
    /\ address' = uint64_set_high(address, value)
    /\ UNCHANGED <<hw, pipes, save_pipes, cache_pipe, cache_pipe_64bit,
                   pipes_by_channel, size, status, channel, wakes,
                   params_addr, irq, aborted>>

\* case PIPE_REG_PARAMS_ADDR_HIGH
pipe_dev_write_PARAMS_ADDR_HIGH(value) ==
    /\ ~aborted
    /\ mmio.pc = "idle"
    /\ params_addr' = uint64_set_high(params_addr, value)
    /\ UNCHANGED <<hw, pipes, save_pipes, cache_pipe, cache_pipe_64bit,
                   pipes_by_channel, address, size, status, channel, wakes,
                   irq, aborted>>

\* pipe_dev_read, case PIPE_REG_PARAMS_ADDR_LOW: what it returns
read_PARAMS_ADDR_LOW_value == Low32(params_addr)

\* pipe_dev_read, case PIPE_REG_PARAMS_ADDR_HIGH: what it returns
read_PARAMS_ADDR_HIGH_value == High32(params_addr)

\* the two cases change nothing
pipe_dev_read_PARAMS_ADDR ==
    /\ ~aborted
    /\ mmio.pc = "idle"
    /\ UNCHANGED dev

last_read(name, value) == Op(name, 0, NULL, "", value, <<>>)

NextRegs ==
    \/ \E v \in HalfVals :
          pipe_dev_write_ADDRESS(v) /\ Observed(last_write("write_ADDRESS", v))
    \/ \E v \in HalfVals :
          pipe_dev_write_ADDRESS_HIGH(v)
              /\ Observed(last_write("write_ADDRESS_HIGH", v))
    \/ \E v \in HalfVals :
          pipe_dev_write_CHANNEL(v) /\ Observed(last_write("write_CHANNEL", v))
    \/ \E v \in HalfVals :
          pipe_dev_write_CHANNEL_HIGH(v)
              /\ Observed(last_write("write_CHANNEL_HIGH", v))
    \/ \E v \in HalfVals :
          pipe_dev_write_PARAMS_ADDR_LOW(v)
              /\ Observed(last_write("write_PARAMS_ADDR_LOW", v))
    \/ \E v \in HalfVals :
          pipe_dev_write_PARAMS_ADDR_HIGH(v)
              /\ Observed(last_write("write_PARAMS_ADDR_HIGH", v))
    \/ /\ pipe_dev_read_PARAMS_ADDR
       /\ Observed(last_read("read_PARAMS_ADDR_LOW", read_PARAMS_ADDR_LOW_value))
    \/ /\ pipe_dev_read_PARAMS_ADDR
       /\ Observed(last_read("read_PARAMS_ADDR_HIGH",
                             read_PARAMS_ADDR_HIGH_value))

SpecRegs == Init /\ [][NextRegs]_vars

(***************************************************************************)
(* The claims.                                                             *)
(***************************************************************************)
\* the last operation was the command 'command' written to PIPE_REG_COMMAND
LastCommand(command) == last.op = "command" /\ last.cmd = command

\* the records that are allocated
LivePipes == {p \in Handles : hw[p].st = "live"}

\* C1: a guest CLOSE with the channel register latched to a channel that is in
\* the table removes it from the table: after the command a lookup of the
\* latched id finds nothing.
C1_CloseRemovesChannel ==
    (LastCommand(PIPE_CMD_CLOSE) /\ last.h # NULL)
        => g_hash_table_lookup(pipes_by_channel, channel) = NULL

\* C1, the case it is about: a CLOSE of a channel of the table, issued after
\* the traversal head had moved past that channel
C1_CloseAfterDrain ==
    LastCommand(PIPE_CMD_CLOSE) /\ last.h # NULL /\ last.path = "not_on_list"

\* C2: right after a read of CHANNEL or CHANNEL_HIGH that lowers the irq, no
\* live channel has a nonzero wanted mask.
C2_IrqLoweredOnlyWhenDrained ==
    (last.op \in {"read_CHANNEL", "read_CHANNEL_HIGH"} /\ last.calls = <<"irq0">>)
        => \A p \in LivePipes : hw[p].wanted = 0

\* C3: when a read of CHANNEL_HIGH has returned the nonzero high half of a
\* channel and only host wakes of other channels have run since, the next read
\* of CHANNEL selects the same channel, returns its low half and latches its
\* wanted mask.
C3_PairAtomic ==
    [][(last.pair # NULL /\ last'.op = "read_CHANNEL")
          => /\ last'.h = last.pair
             /\ last'.ret = Low32(hw[last.pair].channel)
             /\ wakes' = hw[last.pair].wanted]_vars

\* C4: neither fast-path slot references a destroyed channel: each is empty or
\* holds a live record that the table maps its channel to.
SlotValid(slot) ==
    \/ slot = NULL
    \/ /\ Live(hw, slot)
       /\ g_hash_table_lookup(pipes_by_channel, hw[slot].channel) = slot

C4_SlotsNeverDangle == SlotValid(cache_pipe) /\ SlotValid(cache_pipe_64bit)

\* C8: a guest CLOSE that removes a channel leaves status = 0.
C8_CloseStatusZero ==
    (LastCommand(PIPE_CMD_CLOSE) /\ last.path = "closed") => status = 0

\* the latched id is a key of the table
InTable == \E e \in pipes_by_channel : e.key = channel

\* the record the table holds for the latched id
Latched == (CHOOSE e \in pipes_by_channel : e.key = channel).pipe

\* what a command that only reports a status leaves alone
CommandLeaves == UNCHANGED <<hw, pipes, save_pipes, pipes_by_channel,
                             cache_pipe, cache_pipe_64bit, irq, channel>>

\* C7 as stated: an OPEN whose latched id is in the table sets status to
\* PIPE_ERROR_INVAL, whatever the state of the existing channel, and changes
\* neither the table, the list nor the channel.
C7_ReopenIsInval ==
    [][(last'.op = "command" /\ last'.cmd = PIPE_CMD_OPEN /\ InTable)
          => (status' = PIPE_ERROR_INVAL /\ CommandLeaves)]_vars

\* C7 amended: an OPEN whose latched id is in the table sets status to
\* PIPE_ERROR_IO when the existing channel is host-closed and to
\* PIPE_ERROR_INVAL otherwise; in both cases it calls nothing and changes
\* neither the table, the list nor the channel.
C7_ReopenFails ==
    [][(last'.op = "command" /\ last'.cmd = PIPE_CMD_OPEN /\ InTable)
          => /\ status' = IF hw[Latched].closed THEN PIPE_ERROR_IO
                          ELSE PIPE_ERROR_INVAL
             /\ last'.calls = <<>>
             /\ CommandLeaves]_vars

\* C7, the case: an OPEN of the id of a host-closed channel of the table has
\* just run and has reported PIPE_ERROR_IO
C7_ReopenOfHostClosed ==
    /\ LastCommand(PIPE_CMD_OPEN)
    /\ last.path = "host_closed"
    /\ InTable
    /\ hw[Latched].closed
    /\ status = PIPE_ERROR_IO

\* C9: a command other than OPEN issued while the latched id is not in the
\* table sets status to PIPE_ERROR_INVAL, calls nothing, and leaves the
\* table, the list, the records, the fast-path slots and the irq unchanged.
C9_UnknownChannelRejected ==
    [][(last'.op = "command" /\ last'.cmd # PIPE_CMD_OPEN /\ ~InTable)
          => /\ status' = PIPE_ERROR_INVAL
             /\ last'.calls = <<>>
             /\ CommandLeaves]_vars

\* C9, the case: a buffer command on an id that is not in the table, while the
\* table holds another channel and the previous status was not the error code
C9_UnknownChannelCommand ==
    /\ LastCommand(PIPE_CMD_READ_BUFFER)
    /\ last.path = "no_channel"
    /\ ~InTable
    /\ pipes_by_channel # {}
    /\ status = PIPE_ERROR_INVAL

\* the commands other than OPEN and CLOSE
ChannelCommands == {PIPE_CMD_POLL, PIPE_CMD_READ_BUFFER, PIPE_CMD_WRITE_BUFFER,
                    PIPE_CMD_WAKE_ON_READ, PIPE_CMD_WAKE_ON_WRITE}

\* C10: a command other than OPEN and CLOSE on a host-closed channel sets
\* status to PIPE_ERROR_IO, calls no handler method and no mapping, and leaves
\* the channel's wanted mask (every record) unchanged; a record that the host
\* has closed stays closed for as long as it lives.
C10_HostClosedRejected ==
    [][/\ (last'.op = "command" /\ last'.cmd \in ChannelCommands
              /\ InTable /\ hw[Latched].closed)
          => /\ status' = PIPE_ERROR_IO
             /\ last'.calls = <<>>
             /\ CommandLeaves
       /\ \A p \in Handles :
             (Live(hw, p) /\ hw[p].closed /\ Live(hw', p)) => hw'[p].closed]_vars

\* C10, the case: a WAKE_ON_READ on a host-closed channel has just run; the
\* channel still carries the CLOSED bit alone
C10_CommandOnHostClosed ==
    /\ LastCommand(PIPE_CMD_WAKE_ON_READ)
    /\ last.path = "host_closed"
    /\ InTable
    /\ hw[Latched].closed
    /\ hw[Latched].wanted = PIPE_WAKE_CLOSED
    /\ status = PIPE_ERROR_IO

\* every thread is between operations
Quiescent == mmio.pc = "idle" /\ \A t \in HostThreads : host[t].pc = "idle"

\* the bits the host and the guest have put into a record since its last drain
AllDeposited(p) == BitOr(deposited[p].host, deposited[p].guest)

\* a read of PIPE_REG_CHANNEL that selects a live channel is being taken
DrainStep == last'.op = "read_CHANNEL" /\ last'.path \in {"cache", "scan"}

\* C5 as stated: the value a drain latches into wakes is exactly the union of
\* the flags the host callbacks have passed for the channel since its previous
\* drain.
C5_WakesEqualHostFlags ==
    [][DrainStep => wakes' = deposited[last'.h].host]_vars

\* C5, the half "no deposited flag is missing": every flag the host has passed
\* since the previous drain is in the value the drain latches.
C5_NoDepositedFlagMissing ==
    [][DrainStep =>
          BitAnd(wakes', deposited[last'.h].host) = deposited[last'.h].host]_vars

\* C6: once the guest command and the host callback that ran concurrently on
\* a channel have both completed, the channel's wanted mask contains the flags
\* the host passed and the bits the guest subscribed (since the last drain).
C6_NoLostBits ==
    Quiescent =>
        \A p \in LivePipes : BitAnd(hw[p].wanted, AllDeposited(p)) = AllDeposited(p)

\* C6, the case: a WAKE_ON store and a host callback on the same channel have
\* both completed and the mask has lost what the host deposited
C6_LostHostFlag ==
    /\ Quiescent
    /\ \E p \in LivePipes :
          /\ deposited[p].guest # 0
          /\ deposited[p].host # 0
          /\ BitAnd(hw[p].wanted, deposited[p].host) # deposited[p].host

\* an OPEN that creates a channel is being taken
OpenStep == last'.op = "command" /\ last'.path = "opened"

\* C11: a successful OPEN of an id not in the table sets status = 0, makes the
\* new channel (wanted = 0, not closed) the table's entry for the latched id,
\* puts it at the head of the traversal list in front of all the channels
\* that were listed before, and sets the saved head to the new head.
C11_OpenPrepends ==
    [][OpenStep =>
          /\ status' = 0
          /\ g_hash_table_lookup(pipes_by_channel', channel) = last'.h
          /\ hw'[last'.h].wanted = 0
          /\ ~hw'[last'.h].closed
          /\ hw'[last'.h].channel = channel
          /\ pipes' = last'.h
          /\ save_pipes' = last'.h
          /\ ListFrom(hw', pipes') = <<last'.h>> \o ListFrom(hw, save_pipes)]_vars

\* C11, the case: an OPEN has run while the traversal head was advanced, and
\* a live channel of the table is on the list no more
C11_OpenDropsChannel ==
    /\ LastCommand(PIPE_CMD_OPEN)
    /\ last.path = "opened"
    /\ \E p \in LivePipes :
          /\ g_hash_table_lookup(pipes_by_channel, hw[p].channel) = p
          /\ ~OnList(hw, save_pipes, p)

\* C12: a host wake(c, flags) on a live channel ORs flags into c.wanted and
\* changes nothing else of any record, raises the irq, stores c in cache_pipe
\* exactly when c is not host-closed (the slot keeps its value otherwise), and
\* leaves the table, the list heads and cache_pipe_64bit unchanged.
C12_WakeEffect ==
    [][last'.op = "wake" =>
          /\ Live(hw, last'.h)
          /\ hw' = [hw EXCEPT ![last'.h].wanted = BitOr(@, last'.cmd)]
          /\ irq' = 1
          /\ cache_pipe' = IF hw[last'.h].closed THEN cache_pipe ELSE last'.h
          /\ UNCHANGED <<pipes_by_channel, pipes, save_pipes, cache_pipe_64bit>>]_vars

\* C12, the case: a wake of a host-closed channel has just run, its flag is
\* in the mask next to the CLOSED bit, and the slot still holds another channel
C12_WakeOfHostClosed ==
    /\ last.op = "wake"
    /\ hw[last.h].closed
    /\ hw[last.h].wanted = BitOr(PIPE_WAKE_CLOSED, last.cmd)
    /\ cache_pipe # NULL
    /\ cache_pipe # last.h
    /\ irq = 1

\* C13: the host close takes effect once per channel: however the calls of
\* close(c) are ordered or overlap, the CLOSED flag is deposited into c.wanted
\* (and the irq raised for it) at most once.
C13_ClosedOnce == \A p \in Handles : deposited[p].closes <= 1

\* C13, the case: two closes of one channel have both completed, the guest
\* has drained the first CLOSED flag and the flag is in the mask once more
C13_ClosedTwice ==
    /\ Quiescent
    /\ \E p \in LivePipes :
          /\ deposited[p].closes = 2
          /\ hw[p].wanted = PIPE_WAKE_CLOSED
          /\ irq = 1

\* what a read of PIPE_REG_CHANNEL through the fast-path slot does with the
\* record c it finds there
SlotReadEffect(c) ==
    /\ last'.ret = Low32(hw[c].channel)
    /\ wakes' = hw[c].wanted
    /\ hw' = [hw EXCEPT ![c].wanted = 0]
    /\ cache_pipe_64bit' = NULL
    /\ cache_pipe' = IF cache_pipe_64bit # NULL THEN cache_pipe ELSE NULL
    /\ UNCHANGED <<pipes, save_pipes, irq>>

\* C14: a read of CHANNEL while a fast-path slot holds a channel c returns the
\* low half of c's id, latches c.wanted into wakes, zeroes c.wanted, empties
\* that slot and leaves the list head, the saved head and the irq unchanged.
C14_SlotRead ==
    [][(last'.op = "read_CHANNEL" /\ get_and_clear_cache_pipe # NULL)
          => SlotReadEffect(get_and_clear_cache_pipe)]_vars

\* C14 for the slots that hold a live channel
C14_LiveSlotRead ==
    [][(last'.op = "read_CHANNEL" /\ Live(hw, get_and_clear_cache_pipe))
          => SlotReadEffect(get_and_clear_cache_pipe)]_vars

\* C14, the case: a read of CHANNEL has consumed a slot that held a record
\* the guest had closed
C14_ReadThroughDanglingSlot ==
    /\ last.op = "read_CHANNEL"
    /\ last.path = "dangling"
    /\ last.h # NULL
    /\ hw[last.h].st = "freed"

\* the records from the traversal head on
Listed == ListFrom(hw, pipes)

\* the positions of Listed whose record is signalled
Signalled == {i \in 1 .. Len(Listed) : hw[Listed[i]].wanted # 0}

\* the first signalled record from the head on
FirstSignalled == Listed[CHOOSE i \in Signalled : \A j \in Signalled : i <= j]

\* C15: a read of CHANNEL with both fast-path slots empty selects the first
\* channel from the traversal head on whose wanted mask is nonzero, latches
\* and clears its mask, moves the head to its successor and returns the low
\* half of its id; when there is none it returns 0, sets the head to the
\* saved head, leaves wakes unchanged and lowers the irq exactly when the
\* head was not empty before the read.
C15_ScanRead ==
    [][(last'.op = "read_CHANNEL" /\ cache_pipe = NULL /\ cache_pipe_64bit = NULL)
          => IF Signalled # {}
             THEN /\ last'.ret = Low32(hw[FirstSignalled].channel)
                  /\ wakes' = hw[FirstSignalled].wanted
                  /\ hw' = [hw EXCEPT ![FirstSignalled].wanted = 0]
                  /\ pipes' = hw[FirstSignalled].next
                  /\ UNCHANGED save_pipes
             ELSE /\ last'.ret = 0
                  /\ pipes' = save_pipes
                  /\ UNCHANGED <<wakes, hw, save_pipes>>
                  /\ irq' = IF pipes # NULL THEN 0 ELSE irq]_vars

\* C15, the case: the scan has passed the unsignalled record at the head of
\* the list and has selected its successor
C15_ScanSkipsUnsignalled ==
    /\ last.op = "read_CHANNEL"
    /\ last.path = "scan"
    /\ save_pipes # NULL
    /\ save_pipes # last.h
    /\ hw[save_pipes].next = last.h
    /\ hw[save_pipes].wanted = 0
    /\ wakes # 0
    /\ pipes = hw[last.h].next

\* C15, the other case: the scan has found no signalled record from a
\* non-empty head, has restored the head and lowered the irq
C15_ScanFindsNone ==
    /\ last.op = "read_CHANNEL"
    /\ last.path = "none"
    /\ last.calls = <<"irq0">>
    /\ pipes = save_pipes
    /\ pipes # NULL
    /\ irq = 0

\* a CLOSE is being taken right after the OPEN that created the latched channel
CloseAfterOpenStep ==
    /\ last.op = "command"
    /\ last.path = "opened"
    /\ last'.op = "command"
    /\ last'.cmd = PIPE_CMD_CLOSE

\* C16: OPEN(c) immediately followed by CLOSE(c), for c not in the table
\* before, gives back the state before the OPEN: the table without c, the
\* traversal head the OPEN had found (the new record's successor) with the
\* saved head at it, the fast-path slots and the irq level the OPEN had found
\* (OPEN changes neither).
C16_OpenCloseRestores ==
    [][CloseAfterOpenStep =>
          /\ pipes_by_channel' = pipes_by_channel \ {Entry(channel, last.h)}
          /\ pipes' = hw[last.h].next
          /\ save_pipes' = pipes'
          /\ cache_pipe' = cache_pipe
          /\ cache_pipe_64bit' = cache_pipe_64bit
          /\ irq' = irq]_vars

\* C16, the case: the CLOSE that followed the OPEN has left the closed record
\* in cache_pipe and the irq raised
C16_CloseLeavesSlotAndIrq ==
    /\ LastCommand(PIPE_CMD_CLOSE)
    /\ last.path = "closed"
    /\ pipes_by_channel = {}
    /\ cache_pipe = last.h
    /\ irq = 1

(***************************************************************************)
(* C17: READ_BUFFER / WRITE_BUFFER on a live channel the host has not      *)
(* closed: when cpu_physical_memory_map gives no mapping or fewer bytes    *)
(* than size, status is PIPE_ERROR_INVAL and neither recv nor send is      *)
(* called; otherwise recv (READ_BUFFER) or send (WRITE_BUFFER) is called   *)
(* exactly once, with a buffer of size bytes, and what it returns is       *)
(* the status.                                                             *)
(***************************************************************************)
BufferCmds == {PIPE_CMD_READ_BUFFER, PIPE_CMD_WRITE_BUFFER}

\* the step is a buffer command, by either register, on a live channel the
\* host has not closed
BufferStep ==
    LET pipe == g_hash_table_lookup(pipes_by_channel, channel') IN
    /\ last'.op \in {"command", "access_params"}
    /\ last'.cmd \in BufferCmds
    /\ pipe # NULL
    /\ Live(hw, pipe)
    /\ ~hw[pipe].closed

\* how often the call c is in the sequence calls
Count(calls, c) == Cardinality({i \in DOMAIN calls : calls[i] = c})

C17_BufferTransfer ==
    [][BufferStep =>
         LET xfer == IF last'.cmd = PIPE_CMD_READ_BUFFER THEN "recv" ELSE "send"
             other == IF last'.cmd = PIPE_CMD_READ_BUFFER THEN "send" ELSE "recv"
         IN
         IF ~last'.map.ptr \/ last'.map.l < size'
         THEN /\ status' = PIPE_ERROR_INVAL
              /\ Count(last'.calls, "recv") = 0
              /\ Count(last'.calls, "send") = 0
         ELSE /\ Count(last'.calls, xfer) = 1
              /\ Count(last'.calls, other) = 0
              /\ last'.len = size'
              /\ status' = last'.ret]_vars

\* a short mapping of the buffer of a live channel has been turned down
C17_ShortMappingRejected ==
    /\ last.op = "command"
    /\ last.cmd = PIPE_CMD_READ_BUFFER
    /\ last.h # NULL
    /\ Live(hw, last.h)
    /\ ~hw[last.h].closed
    /\ last.map.ptr
    /\ last.map.l < size
    /\ status = PIPE_ERROR_INVAL

\* a transfer of a live channel has failed in the handler
C17_HandlerErrorReported ==
    /\ last.op = "access_params"
    /\ last.cmd = PIPE_CMD_WRITE_BUFFER
    /\ last.path = "full"
    /\ last.len = 1
    /\ status = PIPE_ERROR_AGAIN

(***************************************************************************)
(* C18: guest-memory mappings never leak: when a READ_BUFFER or            *)
(* WRITE_BUFFER command has returned, every mapping it obtained has been   *)
(* released exactly once, so no mapping is outstanding between MMIO        *)
(* operations.                                                             *)
(***************************************************************************)
\* the mappings the operation o obtained (a call that returns NULL obtains
\* none) and those it released
Obtained(o) == IF o.map.ptr THEN Count(o.calls, "map") ELSE 0
Released(o) == Count(o.calls, "unmap")

C18_NoMappingLeak ==
    /\ Obtained(last) = Released(last)
    /\ last.cmd \in BufferCmds => Count(last.calls, "map") <= 1

\* a buffer command whose mapping came out short has returned
C18_ShortMappingReleased ==
    /\ last.op \in {"command", "access_params"}
    /\ last.cmd \in BufferCmds
    /\ last.path = "short"
    /\ Obtained(last) = 1
    /\ Released(last) = 1

(***************************************************************************)
(* C19: a READ_BUFFER or WRITE_BUFFER command with size = 0 on a live      *)
(* channel the host has not closed succeeds with status = 0.               *)
(***************************************************************************)
C19_ZeroSizeSucceeds ==
    [][BufferStep /\ size' = 0 => status' = 0]_vars

\* a zero-size transfer on a live channel has failed because
\* cpu_physical_memory_map gave no mapping for zero bytes
C19_ZeroSizeInval ==
    /\ last.op = "command"
    /\ last.cmd \in BufferCmds
    /\ last.h # NULL
    /\ Live(hw, last.h)
    /\ ~hw[last.h].closed
    /\ size = 0
    /\ last.calls = <<"map">>
    /\ ~last.map.ptr
    /\ status = PIPE_ERROR_INVAL

\* a zero-size transfer on a live channel has reported the handler's error
C19_ZeroSizeHandlerError ==
    /\ last.op = "command"
    /\ last.cmd \in BufferCmds
    /\ last.h # NULL
    /\ Live(hw, last.h)
    /\ size = 0
    /\ last.path = "full"
    /\ status = PIPE_ERROR_AGAIN

(***************************************************************************)
(* C20: on a write to ACCESS_PARAMS a struct whose cmd is neither          *)
(* READ_BUFFER nor WRITE_BUFFER is ignored: no command is executed, the    *)
(* channel table, the traversal list and the status register are           *)
(* unchanged and nothing is written back to guest memory; when params_addr *)
(* is 0 the write has no effect at all.                                    *)
(***************************************************************************)
\* the calls that execute a command or write guest memory
CommandOrWriteBack(calls) ==
    \E i \in DOMAIN calls : calls[i] \notin {"read32", "read64"}

C20_OtherParamsIgnored ==
    [][last'.op = "access_params" =>
         /\ params_addr = U64(0, 0) =>
                /\ UNCHANGED dev
                /\ last'.calls = <<>>
         /\ params_addr # U64(0, 0) /\ last'.cmd \notin BufferCmds =>
                /\ UNCHANGED <<pipes_by_channel, hw, pipes, save_pipes, status>>
                /\ ~CommandOrWriteBack(last'.calls)]_vars

\* a struct that asks for the CLOSE of an open channel has been ignored
C20_CloseParamsIgnored ==
    /\ last.op = "access_params"
    /\ last.path = "ignored"
    /\ last.cmd = PIPE_CMD_CLOSE
    /\ g_hash_table_lookup(pipes_by_channel, channel) # NULL
    /\ status # 0

\* ACCESS_PARAMS has been written while params_addr was 0
C20_NoParamsAddress ==
    /\ last.op = "access_params"
    /\ last.path = "no_params"
    /\ pipes_by_channel # {}

(***************************************************************************)
(* C21: a COMMAND write with a code that is none of OPEN, CLOSE, POLL,     *)
(* READ_BUFFER, WRITE_BUFFER, WAKE_ON_READ, WAKE_ON_WRITE is ignored:      *)
(* status, the channel table, the traversal list, every channel's wanted   *)
(* and closed fields, the fast-path slots and the irq are unchanged,       *)
(* whether or not the latched channel id is in the table.                  *)
(***************************************************************************)
C21_UnknownCommandIgnored ==
    [][last'.op = "command" /\ last'.cmd = UnknownCommand =>
         UNCHANGED <<status, pipes_by_channel, hw, pipes, save_pipes,
                     cache_pipe, cache_pipe_64bit, irq>>]_vars

\* an unknown command on an id that is not in the table has set the status
C21_UnknownCommandSetsInval ==
    /\ last.op = "command"
    /\ last.cmd = UnknownCommand
    /\ last.path = "no_channel"
    /\ g_hash_table_lookup(pipes_by_channel, channel) = NULL
    /\ pipes_by_channel # {}
    /\ status = PIPE_ERROR_INVAL

\* an unknown command on a channel the host has closed has set the status
C21_UnknownCommandSetsIo ==
    /\ last.op = "command"
    /\ last.cmd = UnknownCommand
    /\ last.path = "host_closed"
    /\ status = PIPE_ERROR_IO

\* C21 as amended: an unknown command changes nothing but the status, and
\* calls nothing; the status is PIPE_ERROR_INVAL when the latched id is not
\* in the table, PIPE_ERROR_IO when the host has closed the channel, and
\* unchanged otherwise
C21_UnknownCommandEffect ==
    [][last'.op = "command" /\ last'.cmd = UnknownCommand =>
         /\ UNCHANGED <<pipes_by_channel, hw, pipes, save_pipes,
                        cache_pipe, cache_pipe_64bit, irq>>
         /\ last'.calls = <<>>
         /\ status' = IF ~InTable THEN PIPE_ERROR_INVAL
                      ELSE IF hw[Latched].closed THEN PIPE_ERROR_IO
                      ELSE status]_vars

\* an unknown command on a live channel has kept the status of a failed poll
C21_UnknownKeepsStatus ==
    /\ last.op = "command"
    /\ last.cmd = UnknownCommand
    /\ last.path = "unknown_command"
    /\ InTable
    /\ ~hw[Latched].closed
    /\ status = PIPE_ERROR_AGAIN

(***************************************************************************)
(* C22: in every state reached by OPEN, CLOSE, host wake / close and reads *)
(* of CHANNEL / CHANNEL_HIGH, the channels reachable from the saved head   *)
(* of the traversal list are the channels of the channel table: no live    *)
(* channel is dropped from the list and no id is on it twice.              *)
(***************************************************************************)
\* the records from the saved head on, their ids, and the ids of the table
SavedList == ListFrom(hw, save_pipes)
SavedIds == {hw[SavedList[i]].channel : i \in 1 .. Len(SavedList)}
TableIds == {e.key : e \in pipes_by_channel}

C22_SavedListIsTable ==
    /\ SavedIds = TableIds
    /\ Cardinality(SavedIds) = Len(SavedList)

\* a CLOSE has run and a live channel of the table is not reachable from the
\* saved head
C22_CloseDropsChannel ==
    /\ LastCommand(PIPE_CMD_CLOSE)
    /\ last.path = "closed"
    /\ \E p \in LivePipes :
          /\ g_hash_table_lookup(pipes_by_channel, hw[p].channel) = p
          /\ hw[p].channel \notin SavedIds

(***************************************************************************)
(* C23: every host wake is eventually delivered: once a host callback has  *)
(* deposited a flag on a live channel c, and the guest keeps reading       *)
(* CHANNEL until it returns 0 whenever the irq is raised and does not      *)
(* close c, a read of CHANNEL eventually returns c with that flag in the   *)
(* wakes register, also when another wake took the fast-path slot or c is  *)
(* host-closed.                                                            *)
(***************************************************************************)
C23_WakeDelivered ==
    \A p \in Handles :
        (Live(hw, p) /\ deposited[p].host # 0) ~> (deposited[p].host = 0)

\* a host flag waits in a live channel of the list while the irq is low and
\* the guest's last read has returned 0
C23_WakeStranded ==
    \E p \in Handles :
        /\ Live(hw, p)
        /\ OnList(hw, save_pipes, p)
        /\ deposited[p].host # 0
        /\ BitAnd(hw[p].wanted, deposited[p].host) = deposited[p].host
        /\ irq = 0
        /\ cache_pipe = NULL
        /\ last.op = "read_CHANNEL"
        /\ last.ret = 0

(***************************************************************************)
(* C24: the traversal list is kept in insertion order: when several        *)
(* channels are signalled and the fast-path slots are empty, successive    *)
(* CHANNEL reads starting from the saved head return them in the order in  *)
(* which the channels were opened.                                         *)
(***************************************************************************)
\* pipe_new0 hands out the records in the order of their handles and no
\* record is used twice, so p was opened before q exactly when p < q
OpenedBefore(p, q) == p < q

\* this step and the one before it are reads of CHANNEL that found their
\* channel by the scan of the list
SuccessiveScans ==
    /\ last.op = "read_CHANNEL"
    /\ last.path = "scan"
    /\ last'.op = "read_CHANNEL"
    /\ last'.path = "scan"

C24_OpeningOrder ==
    [][SuccessiveScans => OpenedBefore(last.h, last'.h)]_vars

\* C24 as amended: the list holds the most recently opened channel first
\* (OPEN prepends), and successive reads that scan it return the signalled
\* channels in that order, the later opened before the earlier opened
C24_NewestFirst ==
    [][/\ \A i, j \in 1 .. Len(ListFrom(hw', pipes')) :
             i < j => OpenedBefore(ListFrom(hw', pipes')[j],
                                   ListFrom(hw', pipes')[i])
       /\ SuccessiveScans => OpenedBefore(last'.h, last.h)]_vars

\* both channels were signalled by the host's close, which leaves the slots
\* empty, and the scan has returned the first opened one last
C24_OlderReturnedLast ==
    /\ last.op = "read_CHANNEL"
    /\ last.path = "scan"
    /\ last.h = 1
    /\ Live(hw, 2)
    /\ OnList(hw, save_pipes, 1)
    /\ OnList(hw, save_pipes, 2)
    /\ hw[1].closed
    /\ hw[2].closed
    /\ hw[1].wanted = 0
    /\ hw[2].wanted = 0
    /\ wakes = PIPE_WAKE_CLOSED

(***************************************************************************)
(* C25: the assertions in the read of CHANNEL_HIGH never fail: whenever    *)
(* the read selects a channel, from the fast-path slot or by the scan of   *)
(* the list, the channel's id has a nonzero high half, so the read returns *)
(* a value and the device is not aborted.                                  *)
(***************************************************************************)
C25_AssertsHold ==
    /\ ~aborted
    /\ (last.op = "read_CHANNEL_HIGH" /\ last.path \in {"cache", "scan"})
          => High32(hw[last.h].channel) # 0

\* the read of CHANNEL_HIGH has found a live channel with a zero high half in
\* the fast-path slot, and its assert has failed
C25_AssertFailedOnSlot ==
    /\ aborted
    /\ last.op = "read_CHANNEL_HIGH"
    /\ last.path = "cache"
    /\ Live(hw, last.h)
    /\ g_hash_table_lookup(pipes_by_channel, hw[last.h].channel) = last.h
    /\ High32(hw[last.h].channel) = 0

(***************************************************************************)
(* C26: address, channel and params_addr are assembled from independent    *)
(* halves: a write to a LOW register replaces only the low half and a      *)
(* write to a HIGH register only the high half, in either order; a read of *)
(* PARAMS_ADDR_LOW / PARAMS_ADDR_HIGH returns the half last written; and   *)
(* no other register changes.                                              *)
(***************************************************************************)
\* the halves of the number x, by arithmetic
LowHalf(x) == x % HalfMod
HighHalf(x) == x \div HalfMod

\* the register the operation named op writes a half of
WritesLow(op) == op \in {"write_ADDRESS", "write_CHANNEL", "write_PARAMS_ADDR_LOW"}
WritesHigh(op) == op \in {"write_ADDRESS_HIGH", "write_CHANNEL_HIGH",
                          "write_PARAMS_ADDR_HIGH"}
WritesTo(op, r) ==
    CASE r = "address" -> op \in {"write_ADDRESS", "write_ADDRESS_HIGH"}
      [] r = "channel" -> op \in {"write_CHANNEL", "write_CHANNEL_HIGH"}
      [] r = "params_addr" ->
            op \in {"write_PARAMS_ADDR_LOW", "write_PARAMS_ADDR_HIGH"}

\* register r takes the half written by the step, and keeps its other half;
\* it is unchanged when the step writes another register
HalfWritten(r, old, new) ==
    IF WritesTo(last'.op, r)
    THEN IF WritesLow(last'.op)
         THEN LowHalf(new) = last'.ret /\ HighHalf(new) = HighHalf(old)
         ELSE HighHalf(new) = last'.ret /\ LowHalf(new) = LowHalf(old)
    ELSE new = old

C26_HalvesIndependent ==
    [][/\ (WritesLow(last'.op) \/ WritesHigh(last'.op)) =>
             /\ HalfWritten("address", address, address')
             /\ HalfWritten("channel", channel, channel')
             /\ HalfWritten("params_addr", params_addr, params_addr')
             /\ UNCHANGED <<size, status, wakes>>
       /\ last'.op = "read_PARAMS_ADDR_LOW" =>
             last'.ret = LowHalf(params_addr) /\ UNCHANGED dev
       /\ last'.op = "read_PARAMS_ADDR_HIGH" =>
             last'.ret = HighHalf(params_addr) /\ UNCHANGED dev]_vars

\* the low half of params_addr has been replaced while every bit of its high
\* half was set, and the high half is still there
C26_LowWrittenOverFullHigh ==
    /\ last.op = "write_PARAMS_ADDR_LOW"
    /\ last.ret = 1
    /\ params_addr = U64(LowMask, 1)

\* the high half written before the low half is read back
C26_HighReadBack ==
    /\ last.op = "read_PARAMS_ADDR_HIGH"
    /\ last.ret = LowMask
    /\ LowHalf(params_addr) = 1

(***************************************************************************)
(* The two mutexes.  Each qemu_mutex_lock and each qemu_mutex_unlock is a   *)
(* step, and so is each call of a service handler and each update of the   *)
(* irq line.  The MMIO thread opens and closes channels and reads the low   *)
(* channel register; two host threads run the wake and close callbacks.     *)
(* A thread's position says which mutex it owns.                            *)
(***************************************************************************)
\* the ids the guest latches
LockVals == {1}

Threads == HostThreads \cup {"mmio"}

ThreadAt(t) == IF t = "mmio" THEN mmio ELSE host[t]

\* between qemu_mutex_lock(&dev->lock) and qemu_mutex_unlock(&dev->lock)
DevLockPcs == {"cache_locked", "close_locked", "re_cache_locked"}

\* between qemu_mutex_lock(&pipe->lock) and qemu_mutex_unlock(&pipe->lock)
PipeLockPcs == {"wanted_locked", "bits_locked", "re_bits_locked"}

\* the thread is about to call a service handler or qemu_set_irq
CallPcs == {"free", "read_irq", "re_irq", "raise"}

HoldsDevLock(t) == ThreadAt(t).pc \in DevLockPcs

HoldsPipeLock(t, pipe) ==
    ThreadAt(t).pc \in PipeLockPcs /\ ThreadAt(t).pipe = pipe

DevLockFree == \A t \in Threads : ~HoldsDevLock(t)

PipeLockFree(pipe) == \A t \in Threads : ~HoldsPipeLock(t, pipe)

\* qemu_mutex_lock(&pipe->lock).  The mutex of a record that pipe_free has
\* destroyed and released is not a mutex any more: the call may return, end
\* the process, or never return.
LockOutcomes(pipe) ==
    IF Live(hw, pipe) THEN {"locked"} ELSE {"locked", "abort", "blocked"}

\* the mutex of a live record is taken when no thread owns it
MayLock(pipe, out) == out = "locked" /\ Live(hw, pipe) => PipeLockFree(pipe)

\* the position after qemu_mutex_lock(&pipe->lock)
AfterLock(out, locked) == IF out = "blocked" THEN "blocked" ELSE locked

\* ---- pipe_dev_read, case PIPE_REG_CHANNEL ----
\* get_and_clear_cache_pipe up to its qemu_mutex_lock; the 64-bit slot is
\* taken without the mutex
read_lock_cache ==
    /\ ~aborted
    /\ mmio.pc = "idle"
    /\ IF cache_pipe_64bit # NULL
       THEN /\ mmio' = [MmioIdle EXCEPT !.pc = "got_cache",
                                        !.pipe = cache_pipe_64bit]
            /\ cache_pipe_64bit' = NULL
       ELSE /\ DevLockFree
            /\ mmio' = [MmioIdle EXCEPT !.pc = "cache_locked"]
            /\ UNCHANGED cache_pipe_64bit
    /\ UNCHANGED <<hw, pipes, save_pipes, cache_pipe, pipes_by_channel, regs,
                   irq, aborted, host, deposited, last>>

\* val = dev->cache_pipe; dev->cache_pipe = NULL; qemu_mutex_unlock
read_unlock_cache ==
    /\ ~aborted
    /\ mmio.pc = "cache_locked"
    /\ mmio' = [mmio EXCEPT !.pc = "got_cache", !.pipe = cache_pipe]
    /\ cache_pipe' = NULL
    /\ UNCHANGED <<hw, pipes, save_pipes, cache_pipe_64bit, pipes_by_channel,
                   regs, irq, aborted, host, deposited, last>>

\* the record the read selects once the slot has been taken
LockReadPipe == IF mmio.pipe # NULL THEN mmio.pipe ELSE FindWanted(hw, pipes)

\* the scan of the list, and get_and_clear_pipe_wanted up to its
\* qemu_mutex_lock; tmp keeps whether the record came from the list
read_lock_wanted(out) ==
    LET pipe == LockReadPipe IN
    /\ ~aborted
    /\ mmio.pc = "got_cache"
    /\ IF pipe = NULL
       THEN /\ pipes' = save_pipes
            /\ mmio' = IF pipes # NULL
                       THEN [MmioIdle EXCEPT !.pc = "read_irq"]
                       ELSE MmioIdle
       ELSE /\ MayLock(pipe, out)
            /\ mmio' = [MmioIdle EXCEPT
                          !.pc = AfterLock(out, "wanted_locked"),
                          !.pipe = pipe,
                          !.tmp = IF mmio.pipe # NULL THEN 0 ELSE 1]
            /\ UNCHANGED pipes
    /\ aborted' = (pipe # NULL /\ out = "abort")
    /\ UNCHANGED <<hw, save_pipes, cache_pipe, cache_pipe_64bit,
                   pipes_by_channel, regs, irq, host, deposited, last>>

\* val = pipe->wanted; pipe->wanted = 0; qemu_mutex_unlock; then
\* dev->wakes = val and, for a record of the list, dev->pipes = pipe->next
read_unlock_wanted(ubw) ==
    LET pipe == mmio.pipe
        live == Live(hw, pipe)
        nxt == IF mmio.tmp = 1 THEN hw[pipe].next ELSE pipes
    IN
    /\ ~aborted
    /\ mmio.pc = "wanted_locked"
    /\ wakes' = IF live THEN hw[pipe].wanted ELSE ubw
    /\ hw' = IF live THEN get_and_clear_pipe_wanted(hw, pipe) ELSE hw
    /\ pipes' = nxt
    /\ mmio' = IF mmio.tmp = 1 /\ nxt = NULL
               THEN [MmioIdle EXCEPT !.pc = "read_irq"]
               ELSE MmioIdle
    /\ UNCHANGED <<save_pipes, cache_pipe, cache_pipe_64bit, pipes_by_channel,
                   address, size, status, channel, params_addr, irq, aborted,
                   host, deposited, last>>

\* qemu_set_irq(s->irq, 0)
read_lower_irq ==
    /\ ~aborted
    /\ mmio.pc = "read_irq"
    /\ irq' = 0
    /\ mmio' = MmioIdle
    /\ UNCHANGED <<hw, pipes, save_pipes, cache_pipe, cache_pipe_64bit,
                   pipes_by_channel, regs, aborted, host, deposited, last>>

\* what the read finds in a freed record's wanted
LockStaleWanted ==
    IF mmio.pc = "wanted_locked" /\ ~Live(hw, mmio.pipe) THEN WantedVals
    ELSE {0}

\* ---- pipeDevice_doCommand, case PIPE_CMD_CLOSE ----
\* the prologue, the unlink, g_hash_table_remove and
\* clear_cache_pipe_if_equal up to its qemu_mutex_lock
close_lock_cache ==
    LET pipe == g_hash_table_lookup(pipes_by_channel, channel) IN
    /\ ~aborted
    /\ mmio.pc = "idle"
    /\ IF CommandPath(PIPE_CMD_CLOSE, "full") = "closed"
       THEN /\ DevLockFree
            /\ hw' = Unlink(hw, pipes, pipe)
            /\ pipes' = UnlinkHead(hw, pipes, pipe)
            /\ save_pipes' = UnlinkHead(hw, pipes, pipe)
            /\ pipes_by_channel' =
                  g_hash_table_remove(pipes_by_channel, hw[pipe].channel)
            /\ mmio' = [MmioIdle EXCEPT !.pc = "close_locked", !.pipe = pipe,
                                        !.cmd = PIPE_CMD_CLOSE]
            /\ UNCHANGED <<cache_pipe, cache_pipe_64bit, regs, irq>>
       ELSE /\ pipeDevice_doCommand(PIPE_CMD_CLOSE, NULL, 0, "full", FALSE, 0)
            /\ UNCHANGED <<address, size, channel, wakes, params_addr, mmio>>
    /\ UNCHANGED <<aborted, host, deposited, last>>

\* the two tests of clear_cache_pipe_if_equal; qemu_mutex_unlock
close_unlock_cache ==
    /\ ~aborted
    /\ mmio.pc = "close_locked"
    /\ cache_pipe' = clear_cache_pipe_if_equal(cache_pipe, mmio.pipe)
    /\ cache_pipe_64bit' = clear_cache_pipe_if_equal(cache_pipe_64bit, mmio.pipe)
    /\ mmio' = [mmio EXCEPT !.pc = "free"]
    /\ UNCHANGED <<hw, pipes, save_pipes, pipes_by_channel, regs, irq, aborted,
                   host, deposited, last>>

\* pipe_free: android_pipe_free(pipe->pipe).  The service may call
\* qemu2_android_pipe_wake on this thread before it returns; the step ends
\* at that call's qemu_mutex_lock(&pipe->lock).
free_call(rewake, reflags) ==
    /\ ~aborted
    /\ mmio.pc = "free"
    /\ IF rewake
       THEN /\ PipeLockFree(mmio.pipe)
            /\ mmio' = [mmio EXCEPT !.pc = "re_bits_locked", !.tmp = reflags]
       ELSE mmio' = [mmio EXCEPT !.pc = "destroy"]
    /\ UNCHANGED <<dev, host, deposited, last>>

\* the nested wake: pipe->wanted |= flags; qemu_mutex_unlock
re_unlock_bits ==
    /\ ~aborted
    /\ mmio.pc = "re_bits_locked"
    /\ hw' = wake_hw(hw, mmio.pipe, mmio.tmp)
    /\ mmio' = [mmio EXCEPT !.pc = "re_cache"]
    /\ UNCHANGED <<pipes, save_pipes, cache_pipe, cache_pipe_64bit,
                   pipes_by_channel, regs, irq, aborted, host, deposited, last>>

\* the nested wake: if (!pipe->closed) set_cache_pipe up to its
\* qemu_mutex_lock
re_lock_cache ==
    /\ ~aborted
    /\ mmio.pc = "re_cache"
    /\ IF ~hw[mmio.pipe].closed
       THEN /\ DevLockFree
            /\ mmio' = [mmio EXCEPT !.pc = "re_cache_locked"]
       ELSE mmio' = [mmio EXCEPT !.pc = "re_irq"]
    /\ UNCHANGED <<dev, host, deposited, last>>

\* the nested wake: dev->cache_pipe = pipe; qemu_mutex_unlock
re_unlock_cache ==
    /\ ~aborted
    /\ mmio.pc = "re_cache_locked"
    /\ cache_pipe' = mmio.pipe
    /\ mmio' = [mmio EXCEPT !.pc = "re_irq"]
    /\ UNCHANGED <<hw, pipes, save_pipes, cache_pipe_64bit, pipes_by_channel,
                   regs, irq, aborted, host, deposited, last>>

\* the nested wake: qemu_set_irq(dev->ps->irq, 1); android_pipe_free returns
re_raise_irq ==
    /\ ~aborted
    /\ mmio.pc = "re_irq"
    /\ irq' = 1
    /\ mmio' = [mmio EXCEPT !.pc = "destroy"]
    /\ UNCHANGED <<hw, pipes, save_pipes, cache_pipe, cache_pipe_64bit,
                   pipes_by_channel, regs, aborted, host, deposited, last>>

\* a mutex destroyed while a thread owns it: the call may end the process
DestroyCrashes(pipe) == IF PipeLockFree(pipe) THEN {FALSE} ELSE BOOLEAN

\* pipe_free: qemu_mutex_destroy(&pipe->lock); g_free(pipe)
free_destroy(crash) ==
    /\ ~aborted
    /\ mmio.pc = "destroy"
    /\ hw' = [hw EXCEPT ![mmio.pipe] = FreedPipe]
    /\ aborted' = crash
    /\ mmio' = MmioIdle
    /\ UNCHANGED <<pipes, save_pipes, cache_pipe, cache_pipe_64bit,
                   pipes_by_channel, regs, irq, host, deposited, last>>

\* ---- the host callbacks ----
\* android_pipe_free has been called for the record
FreePcs == {"re_bits_locked", "re_cache", "re_cache_locked", "re_irq", "destroy"}

\* a host thread can still start a callback for the record: the service
\* starts none once its android_pipe_free has been called
MayCall(pipe) == Live(hw, pipe) /\ ~(mmio.pipe = pipe /\ mmio.pc \in FreePcs)

\* qemu2_android_pipe_wake is entered
lock_wake_enter(t, pipe, flags) ==
    /\ ~aborted
    /\ host[t].pc = "idle"
    /\ MayCall(pipe)
    /\ host' = [host EXCEPT ![t] = [pc |-> "bits", pipe |-> pipe,
                                    flags |-> flags]]
    /\ UNCHANGED <<dev, mmio, deposited, last>>

\* qemu2_android_pipe_close up to its call of qemu2_android_pipe_wake
lock_close_enter(t, pipe) ==
    /\ ~aborted
    /\ host[t].pc = "idle"
    /\ MayCall(pipe)
    /\ ~hw[pipe].closed
    /\ hw' = [hw EXCEPT ![pipe].closed = TRUE]
    /\ host' = [host EXCEPT ![t] = [pc |-> "bits", pipe |-> pipe,
                                    flags |-> PIPE_WAKE_CLOSED]]
    /\ UNCHANGED <<pipes, save_pipes, cache_pipe, cache_pipe_64bit,
                   pipes_by_channel, regs, irq, aborted, mmio, deposited, last>>

\* set_pipe_wanted_bits: qemu_mutex_lock(&pipe->lock)
host_lock_bits(t, out) ==
    /\ ~aborted
    /\ host[t].pc = "bits"
    /\ MayLock(host[t].pipe, out)
    /\ host' = [host EXCEPT ![t].pc = AfterLock(out, "bits_locked")]
    /\ aborted' = (out = "abort")
    /\ UNCHANGED <<hw, pipes, save_pipes, cache_pipe, cache_pipe_64bit,
                   pipes_by_channel, regs, irq, mmio, deposited, last>>

\* set_pipe_wanted_bits: pipe->wanted |= val; qemu_mutex_unlock
host_unlock_bits(t) ==
    LET pipe == host[t].pipe IN
    /\ ~aborted
    /\ host[t].pc = "bits_locked"
    /\ hw' = IF Live(hw, pipe) THEN wake_hw(hw, pipe, host[t].flags) ELSE hw
    /\ host' = [host EXCEPT ![t].pc = "set_cache"]
    /\ UNCHANGED <<pipes, save_pipes, cache_pipe, cache_pipe_64bit,
                   pipes_by_channel, regs, irq, aborted, mmio, deposited, last>>

\* if (!pipe->closed) set_cache_pipe up to its qemu_mutex_lock; isclosed is
\* what the test finds in a freed record
host_lock_cache(t, isclosed) ==
    LET pipe == host[t].pipe
        closed == IF Live(hw, pipe) THEN hw[pipe].closed ELSE isclosed
    IN
    /\ ~aborted
    /\ host[t].pc = "set_cache"
    /\ IF ~closed
       THEN /\ DevLockFree
            /\ host' = [host EXCEPT ![t].pc = "cache_locked"]
       ELSE host' = [host EXCEPT ![t].pc = "raise"]
    /\ UNCHANGED <<dev, mmio, deposited, last>>

\* set_cache_pipe: dev->cache_pipe = cache_pipe; qemu_mutex_unlock
host_unlock_cache(t) ==
    /\ ~aborted
    /\ host[t].pc = "cache_locked"
    /\ cache_pipe' = host[t].pipe
    /\ host' = [host EXCEPT ![t].pc = "raise"]
    /\ UNCHANGED <<hw, pipes, save_pipes, cache_pipe_64bit, pipes_by_channel,
                   regs, irq, aborted, mmio, deposited, last>>

\* the steps that continue an MMIO access that has started
MmioContinues ==
    \/ read_unlock_cache
    \/ \E out \in LockOutcomes(LockReadPipe) : read_lock_wanted(out)
    \/ \E w \in LockStaleWanted : read_unlock_wanted(w)
    \/ read_lower_irq
    \/ close_unlock_cache
    \/ \E w \in BOOLEAN, f \in WakeFlagInputs : free_call(w, f)
    \/ re_unlock_bits
    \/ re_lock_cache
    \/ re_unlock_cache
    \/ re_raise_irq
    \/ \E crash \in DestroyCrashes(mmio.pipe) : free_destroy(crash)

\* the steps that continue a callback that has started
HostContinues(t) ==
    \/ \E out \in LockOutcomes(host[t].pipe) : host_lock_bits(t, out)
    \/ host_unlock_bits(t)
    \/ \E c \in StaleClosed(t) : host_lock_cache(t, c)
    \/ host_unlock_cache(t)
    \/ wake_raise_irq(t) /\ UNCHANGED <<deposited, last>>

NextLock ==
    \/ \E v \in LockVals :
          pipe_dev_write_CHANNEL(v)
              /\ UNCHANGED <<mmio, host, deposited, last>>
    \/ \E n \in NewOf(PIPE_CMD_OPEN) :
          /\ Low32(channel) \in LockVals
          /\ pipe_dev_write_COMMAND(PIPE_CMD_OPEN, n, 0, "full", FALSE, 0)
          /\ UNCHANGED <<mmio, host, deposited, last>>
    \/ Low32(channel) \in LockVals /\ close_lock_cache
    \/ read_lock_cache
    \/ MmioContinues
    \/ \E t \in HostThreads, p \in Handles, f \in WakeFlagInputs :
          lock_wake_enter(t, p, f)
    \/ \E t \in HostThreads, p \in Handles : lock_close_enter(t, p)
    \/ \E t \in HostThreads : HostContinues(t)

\* a thread that has started an operation goes on with it, and a thread that
\* waits for a mutex gets it when the mutex is released again and again
SpecLock ==
    /\ Init
    /\ [][NextLock]_vars
    /\ SF_vars(MmioContinues)
    /\ \A t \in HostThreads : SF_vars(HostContinues(t))

\* the thread has an MMIO access or a callback under way
Busy(t) == ThreadAt(t).pc # "idle"

\* no thread owns dev->lock and a record's mutex together, and none owns a
\* mutex where it calls a service handler or qemu_set_irq
LockDiscipline ==
    \A t \in Threads :
        /\ ~(HoldsDevLock(t) /\ \E p \in Handles : HoldsPipeLock(t, p))
        /\ ThreadAt(t).pc \in CallPcs =>
              ~HoldsDevLock(t) /\ \A p \in Handles : ~HoldsPipeLock(t, p)

\* C27: no thread ever holds the device lock and a channel's lock together
\* and none holds a lock across a handler call or an irq update, and every
\* MMIO access and every callback that has started comes to its end (the
\* end of the whole process counts as an end).
C27_NoDeadlock ==
    /\ []LockDiscipline
    /\ \A t \in Threads : Busy(t) ~> (~Busy(t) \/ aborted)

\* C27, the case that fails: a callback waits for the mutex of a record that
\* a guest CLOSE has destroyed and released in the meantime
C27_BlockedOnFreedLock ==
    \E t \in HostThreads :
        /\ host[t].pc = "blocked"
        /\ host[t].pipe # NULL
        /\ hw[host[t].pipe].st = "freed"
        /\ mmio.pc = "idle"

\* C27 with the destroyed mutex set aside: a thread that never reaches the
\* mutex of a freed record comes to the end of what it started
C27_TerminatesUnlessLockFreed ==
    /\ []LockDiscipline
    /\ \A t \in Threads :
          Busy(t) ~> (~Busy(t) \/ aborted \/ ThreadAt(t).pc = "blocked")

====
